---- MODULE Spec2Model ----
(***************************************************************************)
(* gcp-cni: the IPPool allocator (pkg/ipam), and the gcp-ipam CNI driver   *)
(* (cmd/ipam) that composes it with the per-host file lock and the cloud's *)
(* alias-IP interface updates.                                             *)
(*                                                                         *)
(* An IPv4 address is the 4-byte net.IP the code works on: a tuple of four *)
(* bytes.  A map key of IPPool.spec.allocations is the dotted-quad string  *)
(* of such an address; the tuple stands for that string.  The empty tuple  *)
(* stands for the empty string (no requestedIP, no result).                *)
(***************************************************************************)
EXTENDS Integers, Sequences, FiniteSets, TLC

VARIABLES
    pool,        \* the IPPool record in the cluster API (NoPool when missing)
    lastWriter,  \* which operation made the last accepted write of the record
    scanResult,  \* the last value findAvailableIP returned (scanner harness)
    prov,        \* the provisioner's run: Provision and createOrUpdateIPPool
    cloud,       \* the subnet's secondary ranges and the internal-range reservation
    call,        \* per process: the Allocate / Release call it is running
    log,         \* the finished Allocate / Release calls, in order of return
    inv,         \* per process: the CNI invocation (cmdAdd / cmdDel) it is running
    lock,        \* per node: the process holding /var/run/gcp-ipam.lock (0: free)
    vm,          \* per node: the instance's primary interface in the cloud
    opRes,       \* per process: the status of the cloud operation it waits for
    pods,        \* the pods that hold an IP: what the orchestrator may delete or move
    migrating,   \* the migrations whose destination ADD has not succeeded yet
    ninv,        \* CNI invocations started so far
    wait,        \* a waitForInstanceOperation call, its operation and its context
    installer    \* the installer daemon: its reconfiguration run and the host's CNI conf file

cniVars == <<inv, lock, vm, opRes, pods, migrating, ninv, wait, installer>>

vars ==
    <<pool, lastWriter, scanResult, prov, cloud, call, log, inv, lock, vm, opRes, pods, migrating, ninv,
      wait, installer>>

(***************************************************************************)
(* Byte and address arithmetic                                             *)
(***************************************************************************)
NoIP == <<>>

RECURSIVE BitAnd(_, _, _)
BitAnd(a, b, n) ==
    IF n = 0 THEN 0
    ELSE ((a % 2) * (b % 2)) + 2 * BitAnd(a \div 2, b \div 2, n - 1)

RECURSIVE BitOr(_, _, _)
BitOr(a, b, n) ==
    IF n = 0 THEN 0
    ELSE (IF (a % 2) + (b % 2) > 0 THEN 1 ELSE 0) + 2 * BitOr(a \div 2, b \div 2, n - 1)

\* ^m on one byte
ByteNot(m) == 255 - m

\* net.CIDRMask(ones, 32): the 4-byte mask with `ones` leading one bits
CIDRMask(ones) ==
    LET m(i) == LET n == ones - 8 * (i - 1)
                IN  IF n >= 8 THEN 255 ELSE IF n <= 0 THEN 0 ELSE 256 - 2 ^ (8 - n)
    IN  <<m(1), m(2), m(3), m(4)>>

\* IP.Mask(mask)
MaskIP(ip, mask) ==
    <<BitAnd(ip[1], mask[1], 8), BitAnd(ip[2], mask[2], 8),
      BitAnd(ip[3], mask[3], 8), BitAnd(ip[4], mask[4], 8)>>

\* the string "<addr>/<ones>"
Cidr(a, b, c, d, ones) == [addr |-> <<a, b, c, d>>, ones |-> ones]

\* the empty string, which net.ParseCIDR rejects
NoCidr == Cidr(0, 0, 0, 0, 0)

\* net.ParseCIDR of the string "<addr>/<ones>": the address as written, and the
\* network (masked address, mask)
ParseCIDR(cidr) ==
    [ip    |-> cidr.addr,
     ipNet |-> [IP   |-> MaskIP(cidr.addr, CIDRMask(cidr.ones)),
                Mask |-> CIDRMask(cidr.ones)]]

\* IPNet.Contains
Contains(ipNet, ip) ==
    \A i \in 1..4 : BitAnd(ipNet.IP[i], ipNet.Mask[i], 8) = BitAnd(ip[i], ipNet.Mask[i], 8)

\* nextIP: add one to the last byte, carrying into the bytes before it; each
\* byte wraps at 256
RECURSIVE nextIPFrom(_, _)
nextIPFrom(next, i) ==
    IF i = 0 THEN next
    ELSE LET b == (next[i] + 1) % 256
         IN  IF b > 0 THEN [next EXCEPT ![i] = b]
             ELSE nextIPFrom([next EXCEPT ![i] = b], i - 1)

nextIP(ip) ==
    LET next == nextIPFrom(ip, Len(ip))
    IN  <<next[1], next[2], next[3], next[4]>>

isBroadcast(ip, ipNet) ==
    LET broadcast(i) == BitOr(ip[i], ByteNot(ipNet.Mask[i]), 8)
    IN  ip = <<broadcast(1), broadcast(2), broadcast(3), broadcast(4)>>

\* the loop of findAvailableIP, from candidate currentIP on
RECURSIVE scanFrom(_, _, _)
scanFrom(currentIP, ipNet, allocations) ==
    IF ~Contains(ipNet, currentIP) THEN NoIP
    ELSE IF isBroadcast(currentIP, ipNet) THEN NoIP
    ELSE IF currentIP \notin DOMAIN allocations THEN currentIP
    ELSE scanFrom(nextIP(currentIP), ipNet, allocations)

\* a scan that starts at the network address
findAvailableIPFromNetwork(cidr, allocations) ==
    LET parsed == ParseCIDR(cidr)
    IN  scanFrom(MaskIP(parsed.ip, parsed.ipNet.Mask), parsed.ipNet, allocations)

\* findAvailableIP: NoIP is the error "no available IPs in CIDR", or, for
\* the empty string as cidr, the error "invalid CIDR" of net.ParseCIDR
findAvailableIP(cidr, allocations) ==
    IF cidr = NoCidr THEN NoIP
    ELSE LET parsed == ParseCIDR(cidr)
             first  == nextIP(MaskIP(parsed.ip, parsed.ipNet.Mask))
         IN  scanFrom(first, parsed.ipNet, allocations)

\* a capacity with no case for /32
calculateCapacityNoSlash32(cidr) == 2 ^ (32 - cidr.ones) - 2

\* 0 for the empty string as cidr (net.ParseCIDR fails)
calculateCapacity(cidr) ==
    IF cidr = NoCidr THEN 0
    ELSE LET ones     == cidr.ones
             bits     == 32
             totalIPs == 2 ^ (bits - ones)
         IN  IF ones = bits THEN 1 ELSE totalIPs - 2

(***************************************************************************)
(* The IPPool record (pkg/apis/ipam/v1alpha1) in the cluster API           *)
(***************************************************************************)
\* IPPoolStatus
Status(capacity, allocated, available) ==
    [capacity |-> capacity, allocated |-> allocated, available |-> available]

\* IPAllocation: the pod and the node the address was allocated for
IPAllocation(podUID, nodeName) == [podUID |-> podUID, nodeName |-> nodeName]

\* IPPool; rv is metadata.resourceVersion, exists is FALSE while the cluster
\* holds no record of that name
IPPool(cidr, allocations, status, rv) ==
    [exists |-> TRUE, cidr |-> cidr, subnet |-> "subnetURL", secondaryRangeName |-> "live",
     allocations |-> allocations, status |-> status, rv |-> rv]

\* the record as the provisioner creates it: no allocations, no status
NewPool(cidr) == IPPool(cidr, <<>>, Status(0, 0, 0), 1)

\* allocations[ip] = entry
MapPut(allocations, ip, entry) ==
    [k \in (DOMAIN allocations) \cup {ip} |-> IF k = ip THEN entry ELSE allocations[k]]

\* a delete that removes nothing
MapDeleteNothing(allocations, ip) == allocations

\* delete(allocations, ip)
MapDelete(allocations, ip) ==
    [k \in (DOMAIN allocations) \ {ip} |-> allocations[k]]

(***************************************************************************)
(* What the claims say of a CIDR, in integer arithmetic on the low 24 bits *)
(* (every CIDR of the model has a prefix of 8 bits or more)                *)
(***************************************************************************)
Low24(ip) == ip[2] * 65536 + ip[3] * 256 + ip[4]

FromLow24(a, v) == <<a, v \div 65536, (v \div 256) % 256, v % 256>>

BlockSize(cidr) == 2 ^ (32 - cidr.ones)

BlockBase(cidr) == Low24(cidr.addr) - (Low24(cidr.addr) % BlockSize(cidr))

CidrAddrs(cidr) ==
    {FromLow24(cidr.addr[1], v) : v \in BlockBase(cidr) .. (BlockBase(cidr) + BlockSize(cidr) - 1)}

NetworkAddr(cidr) == FromLow24(cidr.addr[1], BlockBase(cidr))

BroadcastAddr(cidr) == FromLow24(cidr.addr[1], BlockBase(cidr) + BlockSize(cidr) - 1)

\* ascending order of the 32-bit big-endian value
IPLess(x, y) ==
    \E i \in 1..4 : x[i] < y[i] /\ \A j \in 1..(i - 1) : x[j] = y[j]

LowestIP(S) == CHOOSE x \in S : \A y \in S : x = y \/ IPLess(x, y)

\* the capacity the claims state: 2^(32-prefix) - 2, 1 for /32
UsableCount(cidr) == IF cidr.ones = 32 THEN 1 ELSE BlockSize(cidr) - 2

\* the addresses the claims call usable
UsableAddrs(cidr) ==
    IF cidr.ones = 32 THEN CidrAddrs(cidr)
    ELSE CidrAddrs(cidr) \ {NetworkAddr(cidr), BroadcastAddr(cidr)}

(***************************************************************************)
(* The gcp-ipam CNI driver (cmd/ipam): state                               *)
(***************************************************************************)
Nodes == {"A", "B"}

Procs == {1, 2, 3}

\* the node (VM) each process runs on: two processes share node "A"
NodeOf(p) == IF p = 3 THEN "B" ELSE "A"

\* an interface as an instance GET returns it: the alias IP ranges (the IP of
\* each "<ip>/32" entry) and the fingerprint
Interface(aliases, fp) == [aliases |-> aliases, fp |-> fp]

\* no operation runs on the interface
NoOp == [aliases |-> {}, by |-> 0]

\* pc: "idle", "lock" (waits for the file lock), the step the invocation is at,
\* "returned"; reqIP, origInst, moveOut: the pod's annotations ("" : absent);
\* from: the node the migrated IP is attached to; podIP: pod.status.podIPs[0];
\* instance, src: the interfaces read; cidr: allocationResult.CIDR; ret: "ok"
\* or "err"; result: the CNI result an ADD prints
IdleInv ==
    [verb |-> "none", pc |-> "idle", reqIP |-> NoIP, origInst |-> "",
     from |-> "", moveOut |-> FALSE, podIP |-> NoIP, netns |-> TRUE,
     instance |-> Interface({}, 0), src |-> Interface({}, 0),
     newAddress |-> NoIP, cidr |-> NoCidr, ret |-> "none",
     result |-> [address |-> [ip |-> NoIP, ones |-> 0], gateway |-> NoIP]]

(***************************************************************************)
(* The installer: UpdateCNIIPAM and reconfigureCNIIPAMConf                 *)
(***************************************************************************)
\* the "ipam" value of a plugin that is a JSON object: its "type" ("" when it
\* has none) and its other keys
Ipam(type, rest) == [has |-> TRUE, type |-> type, rest |-> rest]

\* the plugin has no "ipam" key, or a value that is no JSON object
NoIpam == [has |-> FALSE, type |-> "", rest |-> ""]

\* an entry of "plugins": its "type" and its "ipam"; every other key of the
\* entry is kept by map[string]interface{} as it is
Plugin(type, ipam) == [type |-> type, ipam |-> ipam]

\* the bytes of a file or of a []byte. kind "json": a JSON object with
\* cniVersion, name and plugins; extra: it has top-level keys that CNIConfig
\* has no field for; indented: the text is what
\* json.MarshalIndent(config, "", "  ") writes. kind "empty": no bytes.
\* kind "invalid": bytes json.Unmarshal rejects. kind "absent": no file
Bytes(kind, plugins, extra, indented) ==
    [kind |-> kind, plugins |-> plugins, extra |-> extra, indented |-> indented]

NoFile == Bytes("absent", <<>>, FALSE, FALSE)

\* nil, and the content of a file written from nil
NilBytes == Bytes("empty", <<>>, FALSE, FALSE)

InvalidBytes == Bytes("invalid", <<>>, FALSE, FALSE)

\* the plugins with "type" of every ipam object set to ipamType
SetIpamType(plugins, ipamType) ==
    [i \in DOMAIN plugins |->
        IF plugins[i].ipam.has
        THEN Plugin(plugins[i].type, Ipam(ipamType, plugins[i].ipam.rest))
        ELSE plugins[i]]

\* UpdateCNIIPAM: Unmarshal into CNIConfig (an error for bytes that are no
\* JSON; top-level keys without a field are dropped), set ipam["type"] of
\* every plugin whose "ipam" is an object, and MarshalIndent; nil, nil when
\* no plugin was modified
UpdateCNIIPAM(data, ipamType) ==
    IF data.kind # "json" THEN [err |-> TRUE, data |-> NilBytes]
    ELSE IF ~(\E i \in DOMAIN data.plugins : data.plugins[i].ipam.has)
    THEN [err |-> FALSE, data |-> NilBytes]
    ELSE [err |-> FALSE,
          data |-> Bytes("json", SetIpamType(data.plugins, ipamType), FALSE, TRUE)]

\* pc: "idle" or the step reconfigureCNIIPAMConf is at; ipamType: its
\* argument; data, updatedData: its locals; ret: "nil" or "err"; runs: calls
\* so far; file: the host's conf file at confPath; tmp: the file at
\* confPath + ".tmp"
IdleInstaller ==
    [pc |-> "idle", ipamType |-> "", data |-> NilBytes, updatedData |-> NilBytes,
     ret |-> "none", runs |-> 0, file |-> NoFile, tmp |-> NoFile]

MaxReconfigs == 2

\* reconfigureCNIIPAMConf returns
ConfReturn(ret) == [installer EXCEPT !.pc = "idle", !.ret = ret]

\* runInstallation calls reconfigureCNIIPAMConf with "gcp-ipam", main at
\* termination with "host-local" (also after a runInstallation that failed
\* before its call)
reconfigureCNIIPAMConf(ipamType) ==
    /\ installer.pc = "idle"
    /\ installer.runs < MaxReconfigs
    /\ installer' = [installer EXCEPT !.pc = "stat", !.ipamType = ipamType, !.ret = "none",
                                      !.data = NilBytes, !.updatedData = NilBytes,
                                      !.runs = @ + 1]
    /\ UNCHANGED <<pool, lastWriter, scanResult, prov, cloud, call, log, inv, lock, vm, opRes, pods, migrating, ninv, wait>>

\* os.Stat: no conf file, nothing to do
confStat ==
    /\ installer.pc = "stat"
    /\ installer' = IF installer.file.kind = "absent" THEN ConfReturn("nil")
                    ELSE [installer EXCEPT !.pc = "read"]
    /\ UNCHANGED <<pool, lastWriter, scanResult, prov, cloud, call, log, inv, lock, vm, opRes, pods, migrating, ninv, wait>>

\* os.ReadFile
confRead ==
    /\ installer.pc = "read"
    /\ installer' = [installer EXCEPT !.data = installer.file, !.pc = "update"]
    /\ UNCHANGED <<pool, lastWriter, scanResult, prov, cloud, call, log, inv, lock, vm, opRes, pods, migrating, ninv, wait>>

\* installer.UpdateCNIIPAM(data, ipamType, logger)
confUpdate ==
    /\ installer.pc = "update"
    /\ LET r == UpdateCNIIPAM(installer.data, installer.ipamType)
       IN  installer' = IF r.err THEN ConfReturn("err")
                        ELSE [installer EXCEPT !.updatedData = r.data, !.pc = "write"]
    /\ UNCHANGED <<pool, lastWriter, scanResult, prov, cloud, call, log, inv, lock, vm, opRes, pods, migrating, ninv, wait>>

\* os.WriteFile(tmpPath, updatedData, 0o644)
confWrite ==
    /\ installer.pc = "write"
    /\ installer' = [installer EXCEPT !.tmp = installer.updatedData, !.pc = "rename"]
    /\ UNCHANGED <<pool, lastWriter, scanResult, prov, cloud, call, log, inv, lock, vm, opRes, pods, migrating, ninv, wait>>

\* os.Rename(tmpPath, confPath)
confRename ==
    /\ installer.pc = "rename"
    /\ installer' = [ConfReturn("nil") EXCEPT !.file = installer.tmp, !.tmp = NoFile]
    /\ UNCHANGED <<pool, lastWriter, scanResult, prov, cloud, call, log, inv, lock, vm, opRes, pods, migrating, ninv, wait>>

\* os.ReadFile, os.WriteFile or os.Rename fails: the error is returned; the
\* conf file is as it was (created: a WriteFile that failed after it had
\* created the temporary file)
confError(created) ==
    /\ installer.pc \in {"read", "write", "rename"}
    /\ created => installer.pc = "write"
    /\ installer' = [ConfReturn("err") EXCEPT !.tmp = IF created THEN NilBytes ELSE @]
    /\ UNCHANGED <<pool, lastWriter, scanResult, prov, cloud, call, log, inv, lock, vm, opRes, pods, migrating, ninv, wait>>

\* no wait is called; its operation is pending and its context is live
IdleWait ==
    [pc |-> "idle", status |-> "PENDING", error |-> FALSE, ctx |-> "live",
     polls |-> 0, ret |-> "none", cause |-> "none"]

InitDriver ==
    /\ inv = [p \in Procs |-> IdleInv]
    /\ lock = [n \in Nodes |-> 0]
    /\ vm = [n \in Nodes |-> [aliases |-> {}, fp |-> 1, op |-> NoOp]]
    /\ opRes = [p \in Procs |-> "none"]
    /\ pods = {}
    /\ migrating = {}
    /\ ninv = 0
    /\ wait = IdleWait
    /\ installer = IdleInstaller

(***************************************************************************)
(* The allocator (pkg/ipam): Allocate and Release, one attempt = one Get    *)
(* of the record followed by one Update carrying the resourceVersion read  *)
(***************************************************************************)
MaxRetries == 10

NoPool == [exists |-> FALSE]

\* AllocationResult
AllocationResult(ip, cidr, subnet, secondaryRangeName) ==
    [ip |-> ip, cidr |-> cidr, subnet |-> subnet, secondaryRangeName |-> secondaryRangeName]

NoResult == AllocationResult(NoIP, NoCidr, "", "")

\* res: "none" while the call runs, then "ok" or the error; ip: the address an
\* Allocate returned; pre: the record an accepted Update replaced; result:
\* what GetAllocation returned
IdleCall ==
    [op |-> "none", pc |-> "idle", reqIP |-> NoIP, podUID |-> 0, i |-> 0,
     snap |-> NoPool, res |-> "none", ip |-> NoIP, pre |-> NoPool, result |-> NoResult]

NewCall(op, reqIP, podUID) ==
    [IdleCall EXCEPT !.op = op, !.pc = "get", !.reqIP = reqIP, !.podUID = podUID]

\* an attempt that leaves the status as read
StatusAsRead(rec) == rec

\* the attempt's status update
WithStatus(rec) ==
    LET capacity  == calculateCapacity(rec.cidr)
        allocated == Cardinality(DOMAIN rec.allocations)
    IN  [rec EXCEPT !.status = Status(capacity, allocated, capacity - allocated)]

\* a tryAllocate that takes the requestedIP without looking it up
tryAllocateLocalUnchecked(snap, reqIP, podUID, nodeName) ==
    LET availableIP == findAvailableIP(snap.cidr, snap.allocations)
        allocatedIP == IF reqIP # NoIP THEN reqIP ELSE availableIP
        err == IF reqIP = NoIP /\ availableIP = NoIP THEN "PoolExhausted" ELSE "none"
    IN  [err |-> err,
         ip  |-> allocatedIP,
         rec |-> IF err # "none" THEN snap
                 ELSE WithStatus([snap EXCEPT !.allocations =
                                     MapPut(@, allocatedIP, IPAllocation(podUID, nodeName))])]

\* tryAllocate between its Get and its Update, on the record it read:
\* the error it returns without writing, or the address and the record to write
tryAllocateLocal(snap, reqIP, podUID, nodeName) ==
    LET availableIP == findAvailableIP(snap.cidr, snap.allocations)
        allocatedIP == IF reqIP # NoIP THEN reqIP ELSE availableIP
        err == IF reqIP # NoIP
               THEN (IF reqIP \in DOMAIN snap.allocations THEN "AlreadyAllocated" ELSE "none")
               ELSE (IF availableIP # NoIP THEN "none"
                     ELSE IF snap.cidr = NoCidr THEN "Error" ELSE "PoolExhausted")
    IN  [err |-> err,
         ip  |-> allocatedIP,
         rec |-> IF err # "none" THEN snap
                 ELSE WithStatus([snap EXCEPT !.allocations =
                                     MapPut(@, allocatedIP, IPAllocation(podUID, nodeName))])]

\* tryRelease between its Get and its Update
tryReleaseLocal(snap, ip) ==
    WithStatus([snap EXCEPT !.allocations = MapDelete(@, ip)])

\* an Update that is accepted whatever resourceVersion it carries
UpdateAcceptedAnyVersion(obj) == pool.exists

\* the cluster API's Update: accepted only with the record's current
\* resourceVersion, otherwise a Conflict
UpdateAccepted(obj) == pool.exists /\ obj.rv = pool.rv

\* the call returns
Return(p, res, ip, pre) ==
    /\ call' = [call EXCEPT ![p].pc = "done", ![p].res = res, ![p].ip = ip, ![p].pre = pre]
    /\ log' = Append(log, [p |-> p, op |-> call[p].op, res |-> res, ip |-> ip,
                           reqIP |-> call[p].reqIP, attempts |-> call[p].i + 1])

\* a loop that goes to the next attempt after every Conflict
RetryAlways(p) ==
    /\ call' = [call EXCEPT ![p].i = @ + 1, ![p].pc = "get"]
    /\ log' = log

\* an attempt ended in a Conflict: the next attempt, or the call fails after
\* MaxRetries attempts
RetryOrGiveUp(p) ==
    IF call[p].i + 1 < MaxRetries
    THEN /\ call' = [call EXCEPT ![p].i = @ + 1, ![p].pc = "get"]
         /\ log' = log
    ELSE Return(p, "ConflictExhausted", NoIP, NoPool)

\* the Get of an attempt (tryAllocate and tryRelease alike)
tryGet(p) ==
    /\ call[p].pc = "get"
    /\ IF pool.exists
       THEN /\ call' = [call EXCEPT ![p].snap = pool, ![p].pc = "update"]
            /\ log' = log
       ELSE Return(p, "NotFound", NoIP, NoPool)
    /\ UNCHANGED <<pool, lastWriter, scanResult, prov, cloud, cniVars>>

\* the rest of tryAllocate: select the address, and Update
tryAllocate(p) ==
    /\ call[p].pc = "update"
    /\ call[p].op = "Allocate"
    /\ LET t == tryAllocateLocal(call[p].snap, call[p].reqIP, call[p].podUID, NodeOf(p))
       IN  IF t.err # "none"
           THEN Return(p, t.err, NoIP, NoPool) /\ UNCHANGED <<pool, lastWriter>>
           ELSE IF UpdateAccepted(t.rec)
           THEN /\ pool' = [t.rec EXCEPT !.rv = pool.rv + 1]
                /\ lastWriter' = "Allocate"
                /\ Return(p, "ok", t.ip, pool)
           ELSE RetryOrGiveUp(p) /\ UNCHANGED <<pool, lastWriter>>
    /\ UNCHANGED <<scanResult, prov, cloud, cniVars>>

\* the rest of tryRelease: delete the key, and Update
tryRelease(p) ==
    /\ call[p].pc = "update"
    /\ call[p].op = "Release"
    /\ LET rec == tryReleaseLocal(call[p].snap, call[p].reqIP)
       IN  IF UpdateAccepted(rec)
           THEN /\ pool' = [rec EXCEPT !.rv = pool.rv + 1]
                /\ lastWriter' = "Release"
                /\ Return(p, "ok", NoIP, pool)
           ELSE RetryOrGiveUp(p) /\ UNCHANGED <<pool, lastWriter>>
    /\ UNCHANGED <<scanResult, prov, cloud, cniVars>>

\* a loop that takes every failed API request for a Conflict
apiErrorRetried(p) ==
    /\ call[p].pc \in {"get", "update"}
    /\ RetryOrGiveUp(p)
    /\ UNCHANGED <<pool, lastWriter, scanResult, prov, cloud, cniVars>>

\* a Get or an Update of the cluster API fails with an error that is not a
\* Conflict: the call returns it
apiError(p) ==
    /\ call[p].pc \in {"get", "update"}
    /\ Return(p, "Error", NoIP, NoPool)
    /\ UNCHANGED <<pool, lastWriter, scanResult, prov, cloud, cniVars>>

Running(p) == call[p].pc \in {"get", "update"}

\* a GetAllocation that finds every address
GetAllocationAnyIP(rec, ip) ==
    IF ~rec.exists THEN [err |-> "NotFound", result |-> NoResult]
    ELSE [err |-> "none",
          result |-> AllocationResult(ip, rec.cidr, rec.subnet, rec.secondaryRangeName)]

\* GetAllocation on the record its Get returns (NoPool: the Get fails)
GetAllocation(rec, ip) ==
    IF ~rec.exists THEN [err |-> "NotFound", result |-> NoResult]
    ELSE IF ip \notin DOMAIN rec.allocations
    THEN [err |-> "NotAllocated", result |-> NoResult]
    ELSE [err |-> "none",
          result |-> AllocationResult(ip, rec.cidr, rec.subnet, rec.secondaryRangeName)]

\* a caller calls GetAllocation: one Get, and the answer
GetAllocationCall(p, ip) ==
    /\ ~Running(p)
    /\ LET r == GetAllocation(pool, ip)
       IN  call' = [call EXCEPT ![p] =
                      [IdleCall EXCEPT !.op = "GetAllocation", !.pc = "done", !.reqIP = ip,
                                       !.res = IF r.err = "none" THEN "ok" ELSE r.err,
                                       !.result = r.result]]
    /\ UNCHANGED <<pool, lastWriter, scanResult, prov, cloud, log, cniVars>>

\* calls started so far
Started == Len(log) + Cardinality({p \in Procs : Running(p)})

(***************************************************************************)
(* The provisioner: createOrUpdateIPPool                                   *)
(***************************************************************************)
\* a secondary range of the subnet
SecondaryRange(name, cidr) == [name |-> name, cidr |-> cidr]

NoRange == SecondaryRange("", NoCidr)

\* the subnetwork as a Get returns it: its secondary ranges, in order, and
\* its fingerprint
Subnetwork(ranges, fp) == [ranges |-> ranges, fp |-> fp]

\* the cloud side of the provisioner: the subnetwork, the patch operation
\* running on it (NoRange: none), whether the operation is by the current
\* run, and the CIDR of the internal range named as the secondary range
\* (NoCidr: no such reservation)
NoCloud ==
    [ranges |-> <<>>, fp |-> 1, op |-> NoRange, reservation |-> NoCidr,
     primary |-> Cidr(10, 128, 0, 0, 20)]

\* projects/<project>/regions/<region>/subnetworks/<subnetwork>
SubnetURL == "projects/p/regions/r/subnetworks/s"

\* pc: "idle", the step Provision or createOrUpdateIPPool is at; cidr, srn:
\* the cidr and secondaryRangeName arguments of createOrUpdateIPPool;
\* existing: the record the Get returned; ret: "ok" or "err"; runs: runs
\* started so far; name: *secondaryRangeName; subnet: the subnetwork read;
\* rangeCIDR, rangeErr: what allocateInternalRange returned
IdleProv ==
    [pc |-> "idle", cidr |-> NoCidr, srn |-> "", existing |-> NoPool, ret |-> "none",
     runs |-> 0, name |-> "", subnet |-> Subnetwork(<<>>, 0), rangeCIDR |-> NoCidr,
     rangeErr |-> FALSE, dryRun |-> FALSE]

\* an ipPool object that keeps the empty allocations map it was built with
ProvisionedPoolAsBuilt(cidr, subnetURL, secondaryRangeName, existing) ==
    [IPPool(cidr, <<>>, Status(0, 0, 0), existing.rv)
        EXCEPT !.subnet = subnetURL, !.secondaryRangeName = secondaryRangeName]

\* the ipPool object the provisioner builds: the allocations and the
\* resourceVersion are the existing record's, Status is left at its zero value
ProvisionedPool(cidr, subnetURL, secondaryRangeName, existing) ==
    [IPPool(cidr, existing.allocations, Status(0, 0, 0), existing.rv)
        EXCEPT !.subnet = subnetURL, !.secondaryRangeName = secondaryRangeName]

\* the locals of createOrUpdateIPPool at its entry
EnterIPPool(cidr, secondaryRangeName) ==
    [prov EXCEPT !.pc = "get", !.cidr = cidr, !.srn = secondaryRangeName,
                 !.existing = NoPool, !.ret = "none"]

\* createOrUpdateIPPool is called for a secondary range with CIDR cidr
createOrUpdateIPPool(cidr, secondaryRangeName) ==
    /\ prov.pc = "idle"
    /\ prov' = [EnterIPPool(cidr, secondaryRangeName) EXCEPT !.runs = @ + 1]
    /\ UNCHANGED <<pool, lastWriter, scanResult, cloud, call, log, cniVars>>

\* the Get of the existing IPPool
provGet ==
    /\ prov.pc = "get"
    /\ prov' = [prov EXCEPT !.existing = pool,
                            !.pc = IF pool.exists THEN "update" ELSE "create"]
    /\ UNCHANGED <<pool, lastWriter, scanResult, cloud, call, log, cniVars>>

\* the record exists: Update, with the existing resourceVersion
provUpdate ==
    /\ prov.pc = "update"
    /\ LET obj == ProvisionedPool(prov.cidr, SubnetURL, prov.srn, prov.existing)
       IN  IF UpdateAccepted(obj)
           THEN /\ pool' = [obj EXCEPT !.rv = pool.rv + 1]
                /\ lastWriter' = "provisioner"
                /\ prov' = [prov EXCEPT !.pc = "idle", !.ret = "ok"]
           ELSE /\ prov' = [prov EXCEPT !.pc = "idle", !.ret = "err"]
                /\ UNCHANGED <<pool, lastWriter>>
    /\ UNCHANGED <<scanResult, cloud, call, log, cniVars>>

\* the record does not exist: Create
provCreate ==
    /\ prov.pc = "create"
    /\ IF ~pool.exists
       THEN /\ pool' = [NewPool(prov.cidr) EXCEPT !.subnet = SubnetURL,
                                                   !.secondaryRangeName = prov.srn]
            /\ lastWriter' = "provisioner"
            /\ prov' = [prov EXCEPT !.pc = "idle", !.ret = "ok"]
       ELSE /\ prov' = [prov EXCEPT !.pc = "idle", !.ret = "err"]
            /\ UNCHANGED <<pool, lastWriter>>
    /\ UNCHANGED <<scanResult, cloud, call, log, cniVars>>

\* the Get of the existing IPPool fails while the record exists:
\* createOrUpdateIPPool goes to Create on every error of the Get
provGetError ==
    /\ prov.pc = "get"
    /\ pool.exists
    /\ prov' = [prov EXCEPT !.existing = NoPool, !.pc = "create"]
    /\ UNCHANGED <<pool, lastWriter, scanResult, cloud, call, log, cniVars>>

(***************************************************************************)
(* The provisioner: Provision and allocateInternalRange                    *)
(***************************************************************************)
\* the CIDR the cloud assigns to a new internal-range reservation
ReservedCIDR == Cidr(10, 111, 0, 0, 30)

\* the secondary ranges of ranges that are named name
Named(ranges, name) == {i \in DOMAIN ranges : ranges[i].name = name}

\* the first range named name: the one the loop of Provision returns at
FirstNamed(ranges, name) ==
    ranges[CHOOSE i \in Named(ranges, name) : \A j \in Named(ranges, name) : i <= j]

\* a loop that never finds the name, so that Provision goes on to reserve a
\* range whatever the subnet holds
NeverNamed(ranges, name) == FALSE

\* the loop over subnet.GetSecondaryIpRanges() finds r.GetRangeName() == name
SomeNamed(ranges, name) == Named(ranges, name) # {}

\* main calls Provision with secondaryRangeName: getClusterInfo. The dryRun
\* flag of the process is logged by main and is no argument of Provision
Provision(secondaryRangeName) ==
    /\ prov.pc = "idle"
    /\ prov' = [IdleProv EXCEPT !.pc = "subnetGet", !.name = secondaryRangeName,
                                !.runs = prov.runs + 1, !.dryRun = prov.dryRun]
    /\ UNCHANGED <<pool, lastWriter, scanResult, cloud, call, log, cniVars>>

\* the Get of the subnetwork, and the loop over its secondary ranges: with a
\* range of that name createOrUpdateIPPool is called with the range's CIDR
subnetGet ==
    /\ prov.pc = "subnetGet"
    /\ LET subnet == Subnetwork(cloud.ranges, cloud.fp)
       IN  IF SomeNamed(subnet.ranges, prov.name)
           THEN prov' = [EnterIPPool(FirstNamed(subnet.ranges, prov.name).cidr, prov.name)
                            EXCEPT !.subnet = subnet]
           ELSE prov' = [prov EXCEPT !.subnet = subnet, !.pc = "rangeGet"]
    /\ UNCHANGED <<pool, lastWriter, scanResult, cloud, call, log, cniVars>>

\* allocateInternalRange: GetInternalRange finds the reservation, or answers
\* NotFound
rangeGet ==
    /\ prov.pc = "rangeGet"
    /\ IF cloud.reservation # NoCidr
       THEN prov' = [prov EXCEPT !.rangeCIDR = cloud.reservation, !.rangeErr = FALSE,
                                 !.pc = "patch"]
       ELSE prov' = [prov EXCEPT !.pc = "rangeCreate"]
    /\ UNCHANGED <<pool, lastWriter, scanResult, cloud, call, log, cniVars>>

\* allocateInternalRange: GetInternalRange fails with an error that is not
\* NotFound; allocateInternalRange returns "", err, and Provision goes on
rangeGetError ==
    /\ prov.pc = "rangeGet"
    /\ prov' = [prov EXCEPT !.rangeCIDR = NoCidr, !.rangeErr = TRUE, !.pc = "patch"]
    /\ UNCHANGED <<pool, lastWriter, scanResult, cloud, call, log, cniVars>>

\* allocateInternalRange: CreateInternalRange and the wait for its operation
\* succeed; the operation returns the CIDR assigned
rangeCreate ==
    /\ prov.pc = "rangeCreate"
    /\ cloud' = [cloud EXCEPT !.reservation = ReservedCIDR]
    /\ prov' = [prov EXCEPT !.rangeCIDR = ReservedCIDR, !.rangeErr = FALSE, !.pc = "patch"]
    /\ UNCHANGED <<pool, lastWriter, scanResult, call, log, cniVars>>

\* allocateInternalRange: CreateInternalRange fails (nothing is created), or
\* the wait for its operation fails (created: the reservation exists all the
\* same); allocateInternalRange returns "", err, and Provision goes on
rangeCreateError(created) ==
    /\ prov.pc = "rangeCreate"
    /\ cloud' = [cloud EXCEPT !.reservation = IF created THEN ReservedCIDR ELSE NoCidr]
    /\ prov' = [prov EXCEPT !.rangeCIDR = NoCidr, !.rangeErr = TRUE, !.pc = "patch"]
    /\ UNCHANGED <<pool, lastWriter, scanResult, call, log, cniVars>>

\* the cloud accepts a subnet patch that carries the current fingerprint while
\* no operation runs on the subnet; a range without ipCidrRange can only be
\* accepted when its reservedInternalRange exists (resolved: the cloud takes
\* the CIDR of the reservation)
PatchAccepted(fp, cidr, resolved) ==
    /\ cloud.op = NoRange
    /\ cloud.fp = fp
    /\ cidr = NoCidr => (resolved /\ cloud.reservation # NoCidr)

\* subnetworkClient.Patch: the ranges read plus the new range, with the
\* fingerprint read
patch(resolved) ==
    /\ prov.pc = "patch"
    /\ IF PatchAccepted(prov.subnet.fp, prov.rangeCIDR, resolved)
       THEN /\ cloud' = [cloud EXCEPT !.op =
                            SecondaryRange(prov.name,
                                           IF prov.rangeCIDR = NoCidr THEN cloud.reservation
                                                                      ELSE prov.rangeCIDR)]
            /\ prov' = [prov EXCEPT !.pc = "patchWait"]
       ELSE /\ prov' = [prov EXCEPT !.pc = "idle", !.ret = "err"]
            /\ cloud' = cloud
    /\ UNCHANGED <<pool, lastWriter, scanResult, call, log, cniVars>>

\* the patch operation is applied
Patched == [cloud EXCEPT !.ranges = Append(@, cloud.op), !.fp = @ + 1, !.op = NoRange]

\* op.Wait returns nil: the subnet has the new range; createOrUpdateIPPool
\* is called with internalRangeCIDR
patchWait ==
    /\ prov.pc = "patchWait"
    /\ cloud.op # NoRange
    /\ cloud' = Patched
    /\ prov' = EnterIPPool(prov.rangeCIDR, prov.name)
    /\ UNCHANGED <<pool, lastWriter, scanResult, call, log, cniVars>>

\* op.Wait returns an error: the operation failed (ended), or the wait was
\* cut short and the operation still runs
patchWaitError(ended) ==
    /\ prov.pc = "patchWait"
    /\ cloud.op # NoRange
    /\ cloud' = IF ended THEN [cloud EXCEPT !.op = NoRange] ELSE cloud
    /\ prov' = [prov EXCEPT !.pc = "idle", !.ret = "err"]
    /\ UNCHANGED <<pool, lastWriter, scanResult, call, log, cniVars>>

\* a patch operation nobody waits for ends: applied, or failed
patchEnds(applied) ==
    /\ prov.pc # "patchWait"
    /\ cloud.op # NoRange
    /\ cloud' = IF applied THEN Patched ELSE [cloud EXCEPT !.op = NoRange]
    /\ UNCHANGED <<pool, lastWriter, scanResult, prov, call, log, cniVars>>

\* a call of Provision or createOrUpdateIPPool to the cloud or the cluster
\* API fails: getClusterInfo, the subnetwork Get, the Patch, the Update, the
\* Create
provError ==
    /\ prov.pc \in {"subnetGet", "patch", "update", "create"}
    /\ prov' = [prov EXCEPT !.pc = "idle", !.ret = "err"]
    /\ UNCHANGED <<pool, lastWriter, scanResult, cloud, call, log, cniVars>>

(***************************************************************************)
(* Scanner harness: findAvailableIP applied to a pool state, its result    *)
(* put into the map, and again                                             *)
(***************************************************************************)
\* /30 (S2, S5), a /29 written with a host address, the last /30 of the
\* address space, a /31 and a /32
ScanCIDRs ==
    {Cidr(10, 111, 0, 0, 30), Cidr(10, 0, 0, 5, 29), Cidr(255, 255, 255, 252, 30),
     Cidr(10, 0, 0, 8, 31), Cidr(10, 0, 0, 9, 32)}

ScanInitKeys(cidr) == SUBSET CidrAddrs(cidr)

NoScan == [done |-> FALSE, ip |-> NoIP]

InitScan ==
    /\ \E c \in ScanCIDRs : \E K \in ScanInitKeys(c) :
          pool = IPPool(c, [k \in K |-> IPAllocation(0, "n")], Status(0, 0, 0), 1)
    /\ lastWriter = "init"
    /\ scanResult = NoScan
    /\ prov = IdleProv
    /\ cloud = NoCloud
    /\ call = [p \in Procs |-> IdleCall]
    /\ log = <<>>
    /\ InitDriver

ScanFind ==
    /\ ~scanResult.done
    /\ scanResult' = [done |-> TRUE, ip |-> findAvailableIP(pool.cidr, pool.allocations)]
    /\ UNCHANGED <<pool, lastWriter, prov, cloud, call, log, cniVars>>

ScanTake ==
    /\ scanResult.done
    /\ scanResult.ip # NoIP
    /\ pool' = [pool EXCEPT !.allocations = MapPut(@, scanResult.ip, IPAllocation(0, "n"))]
    /\ scanResult' = NoScan
    /\ UNCHANGED <<lastWriter, prov, cloud, call, log, cniVars>>

NextScan == ScanFind \/ ScanTake

SpecScan == InitScan /\ [][NextScan]_vars

\* C8: the addresses the scanner can return for a CIDR are the CIDR minus the
\* network and broadcast addresses when the prefix is below 31, and the single
\* address of the CIDR when the prefix is 32: a scan returns a free one of them,
\* and reports none only when none of them is free.
C8_ScannerCandidates ==
    (scanResult.done /\ pool.cidr.ones # 31) =>
        LET free == UsableAddrs(pool.cidr) \ DOMAIN pool.allocations
        IN  IF free = {} THEN scanResult.ip = NoIP ELSE scanResult.ip \in free

\* the same, for prefixes below 31 only
ScannerCandidatesBelow31 ==
    (scanResult.done /\ pool.cidr.ones < 31) =>
        LET free == UsableAddrs(pool.cidr) \ DOMAIN pool.allocations
        IN  IF free = {} THEN scanResult.ip = NoIP ELSE scanResult.ip = LowestIP(free)

(***************************************************************************)
(* Allocator harness: callers of Allocate and Release on one pool          *)
(***************************************************************************)
MaxSeqCalls == 7

MaxCalls == 3

MaxConcCalls == 4

SeqCIDRs ==
    {Cidr(10, 111, 0, 0, 30), Cidr(10, 0, 0, 5, 29), Cidr(255, 255, 255, 252, 30),
     Cidr(10, 0, 0, 8, 31), Cidr(10, 0, 0, 9, 32)}

ConcCIDRs == {Cidr(10, 111, 0, 0, 30), Cidr(10, 0, 0, 5, 29)}

AllocCIDRs == {Cidr(10, 111, 0, 0, 30), Cidr(10, 0, 0, 9, 32)}

\* the addresses callers ask for by name: the network address of the CIDR, the
\* address after it, and one outside the CIDR
AskedIPs(cidr) ==
    {NetworkAddr(cidr), nextIP(NetworkAddr(cidr)), <<192, 168, 0, 7>>}

InitPool(cidrs) ==
    /\ \E c \in cidrs : pool = NewPool(c)
    /\ lastWriter = "init"
    /\ scanResult = NoScan
    /\ prov = IdleProv
    /\ cloud = NoCloud
    /\ call = [p \in Procs |-> IdleCall]
    /\ log = <<>>
    /\ InitDriver

\* a caller on p's node calls Allocate (reqIP = NoIP: no requestedIP)
Allocate(p, reqIP) ==
    /\ ~Running(p)
    /\ call' = [call EXCEPT ![p] = NewCall("Allocate", reqIP, p)]
    /\ UNCHANGED <<pool, lastWriter, scanResult, prov, cloud, log, cniVars>>

\* a caller on p's node calls Release
Release(p, ip) ==
    /\ ~Running(p)
    /\ call' = [call EXCEPT ![p] = NewCall("Release", ip, p)]
    /\ UNCHANGED <<pool, lastWriter, scanResult, prov, cloud, log, cniVars>>

\* sequential Allocate calls without requestedIP, from any node
NextSeq ==
    \E p \in Procs :
        \/ /\ Started < MaxSeqCalls
           /\ \A q \in Procs : ~Running(q)
           /\ Allocate(p, NoIP)
        \/ tryGet(p)
        \/ tryAllocate(p)

SpecSeq == InitPool(SeqCIDRs) /\ [][NextSeq]_vars

\* concurrent Allocate calls without requestedIP
NextConc ==
    \E p \in Procs :
        \/ Started < MaxConcCalls /\ Allocate(p, NoIP)
        \/ tryGet(p)
        \/ tryAllocate(p)

SpecConc == InitPool(ConcCIDRs) /\ [][NextConc]_vars

\* concurrent Allocate (with and without requestedIP) and Release calls
NextAlloc ==
    \E p \in {1, 3} :
        \/ Started < MaxCalls /\ Allocate(p, NoIP)
        \/ Started < MaxCalls /\ \E ip \in AskedIPs(pool.cidr) : Allocate(p, ip)
        \/ Started < MaxCalls /\ \E ip \in AskedIPs(pool.cidr) : Release(p, ip)
        \/ tryGet(p)
        \/ tryAllocate(p)
        \/ tryRelease(p)

SpecAlloc == InitPool(AllocCIDRs) /\ [][NextAlloc]_vars

OkAllocs == {n \in DOMAIN log : log[n].op = "Allocate" /\ log[n].res = "ok"}

\* C1: under any interleaving of concurrent Allocate calls without requestedIP
\* on one pool, no two successful calls return the same IP.
C1_NoDoubleAllocation ==
    \A m, n \in OkAllocs : m # n => log[m].ip # log[n].ip

\* two calls from different nodes succeeded, one of them after losing an
\* attempt to a Conflict
C1_Witness ==
    \E m, n \in OkAllocs :
        /\ NodeOf(log[m].p) # NodeOf(log[n].p)
        /\ log[n].attempts > 1
        /\ log[m].ip # log[n].ip

\* C7: on a pool with empty allocations and k usable addresses, k sequential
\* Allocate calls without requestedIP succeed with strictly ascending IPs, and
\* call k+1 fails with PoolExhausted.
C7_SequentialFill ==
    LET k == UsableCount(pool.cidr)
    IN  \A n \in DOMAIN log :
            /\ n <= k => /\ log[n].res = "ok"
                         /\ n > 1 => IPLess(log[n - 1].ip, log[n].ip)
            /\ n = k + 1 => log[n].res = "PoolExhausted"

\* the same, for every prefix but /32
SequentialFillBelow32 == pool.cidr.ones < 32 => C7_SequentialFill

\* C6: a successful Allocate without requestedIP returns the lowest address
\* of the pool's CIDR that is neither the network nor the broadcast address
\* and is absent from the allocations of the record its accepted write replaced.
C6_LowestFree ==
    \A p \in Procs :
        (call[p].pc = "done" /\ call[p].op = "Allocate" /\ call[p].reqIP = NoIP
            /\ call[p].res = "ok") =>
            LET pre  == call[p].pre
                free == (CidrAddrs(pre.cidr) \ {NetworkAddr(pre.cidr), BroadcastAddr(pre.cidr)})
                            \ DOMAIN pre.allocations
            IN  free # {} /\ call[p].ip = LowestIP(free)

\* an Allocate succeeded on a later attempt, after a Conflict, on a record that
\* already held an allocation
C6_Witness ==
    \E p \in Procs :
        /\ call[p].pc = "done" /\ call[p].op = "Allocate" /\ call[p].reqIP = NoIP
        /\ call[p].res = "ok" /\ call[p].i > 0
        /\ DOMAIN call[p].pre.allocations # {}

\* C9: after any sequence of Allocate (with or without requestedIP) and Release
\* calls, every key of allocations lies inside the pool's cidr and is neither
\* its network nor its broadcast address.
C9_KeysInsideCidr ==
    DOMAIN pool.allocations \subseteq
        (CidrAddrs(pool.cidr) \ {NetworkAddr(pool.cidr), BroadcastAddr(pool.cidr)})

\* the same, for the keys that Allocate picked itself
PickedKeysInsideCidr ==
    \A n \in OkAllocs :
        log[n].reqIP = NoIP =>
            log[n].ip \in (CidrAddrs(pool.cidr) \ {NetworkAddr(pool.cidr), BroadcastAddr(pool.cidr)})

\* C10: the record written by Allocate or Release has status.allocated = the
\* number of keys of allocations, status.available = capacity - allocated, and
\* status.capacity = 2^(32-prefix) - 2 (1 for /32).
C10_StatusAfterWrite ==
    lastWriter \in {"Allocate", "Release"} =>
        LET n == Cardinality(DOMAIN pool.allocations)
        IN  pool.status = Status(UsableCount(pool.cidr), n, UsableCount(pool.cidr) - n)

\* a Release wrote the record and left allocations in it
C10_Witness ==
    /\ lastWriter = "Release"
    /\ Cardinality(DOMAIN pool.allocations) > 0
    /\ pool.status.allocated > 0

(***************************************************************************)
(* The cloud: updates of an instance's primary interface                   *)
(***************************************************************************)
\* a filter that keeps every alias
Unfiltered(aliases, ip) == aliases

\* lo.Filter(AliasIpRanges, IpCidrRange != "<ip>/32")
Removed(aliases, ip) == aliases \ {ip}

\* a cloud that does not compare fingerprints
SubmitAcceptedAnyFingerprint(n, fp) == vm[n].op = NoOp

\* Instances.UpdateNetworkInterface: accepted only with the interface's current
\* fingerprint and while no other operation runs on the interface; the
\* operation it starts is applied, or fails, later
SubmitAccepted(n, fp) == vm[n].op = NoOp /\ vm[n].fp = fp

Submit(p, n, aliases) ==
    /\ vm' = [vm EXCEPT ![n].op = [aliases |-> aliases, by |-> p]]
    /\ opRes' = [opRes EXCEPT ![p] = "none"]

WaitPcs == {"srcWait", "attachWait", "delWait"}

\* the instance whose operation invocation q polls
WaitsOn(q) == IF inv[q].pc = "srcWait" THEN inv[q].origInst ELSE NodeOf(q)

\* invocation q polls the operation on node n
Waits(q, n) == vm[n].op.by = q /\ inv[q].pc \in WaitPcs /\ WaitsOn(q) = n

\* the operation on node n ends DONE without error: the interface has the new
\* alias list and a new fingerprint
OpDone(n) ==
    /\ vm[n].op # NoOp
    /\ vm' = [vm EXCEPT ![n] = [aliases |-> vm[n].op.aliases, fp |-> vm[n].fp + 1, op |-> NoOp]]
    /\ opRes' = [q \in Procs |-> IF Waits(q, n) THEN "DONE" ELSE opRes[q]]
    /\ UNCHANGED <<pool, lastWriter, scanResult, prov, cloud, call, log, inv, lock, pods, migrating, ninv, wait, installer>>

\* the operation on node n ends DONE with op.Error: the interface is unchanged
OpError(n) ==
    /\ vm[n].op # NoOp
    /\ vm' = [vm EXCEPT ![n].op = NoOp]
    /\ opRes' = [q \in Procs |-> IF Waits(q, n) THEN "ERROR" ELSE opRes[q]]
    /\ UNCHANGED <<pool, lastWriter, scanResult, prov, cloud, call, log, inv, lock, pods, migrating, ninv, wait, installer>>

\* a wait that takes any end of the operation for success
waitEnded(p) == opRes[p] # "none"

\* waitForInstanceOperation returns nil
waitOk(p) == opRes[p] = "DONE"

(***************************************************************************)
(* waitForInstanceOperation: the polling loop                              *)
(***************************************************************************)
\* polls a wait makes at most
MaxPolls == 4

\* waitForInstanceOperation returns ret after one more poll
Returned(ret) == [wait EXCEPT !.pc = "returned", !.ret = ret, !.polls = @ + 1]

\* waitForInstanceOperation is called for an operation that was submitted
waitForInstanceOperation ==
    /\ wait.pc = "idle"
    /\ wait' = [wait EXCEPT !.pc = "poll"]
    /\ UNCHANGED <<pool, lastWriter, scanResult, prov, cloud, call, log, inv, lock, vm, opRes, pods, migrating, ninv, installer>>

\* the operation goes on in the cloud: PENDING, RUNNING, DONE (failed: with
\* op.Error set)
opAdvance(failed) ==
    /\ wait.status # "DONE"
    /\ wait' = [wait EXCEPT !.status = IF @ = "PENDING" THEN "RUNNING" ELSE "DONE",
                            !.error = (wait.status = "RUNNING" /\ failed)]
    /\ UNCHANGED <<pool, lastWriter, scanResult, prov, cloud, call, log, inv, lock, vm, opRes, pods, migrating, ninv, installer>>

\* the context of the call is cancelled
ctxCancel ==
    /\ wait.ctx = "live"
    /\ wait' = [wait EXCEPT !.ctx = "cancelled"]
    /\ UNCHANGED <<pool, lastWriter, scanResult, prov, cloud, call, log, inv, lock, vm, opRes, pods, migrating, ninv, installer>>

\* a poll that takes DONE for success whatever op.Error holds
pollIgnoresError ==
    /\ wait.pc = "poll"
    /\ wait.ctx = "live"
    /\ wait.polls < MaxPolls
    /\ wait' = IF wait.status = "DONE" THEN Returned("nil")
               ELSE [wait EXCEPT !.pc = "select", !.polls = @ + 1]
    /\ UNCHANGED <<pool, lastWriter, scanResult, prov, cloud, call, log, inv, lock, vm, opRes, pods, migrating, ninv, installer>>

\* ZoneOperations.Get succeeds (the context is live): DONE with op.Error
\* returns the joined messages as an error, DONE without returns nil, any
\* other status goes to the select
poll ==
    /\ wait.pc = "poll"
    /\ wait.ctx = "live"
    /\ wait.polls < MaxPolls
    /\ wait' = IF wait.status = "DONE"
               THEN (IF wait.error THEN Returned("err") ELSE Returned("nil"))
               ELSE [wait EXCEPT !.pc = "select", !.polls = @ + 1]
    /\ UNCHANGED <<pool, lastWriter, scanResult, prov, cloud, call, log, inv, lock, vm, opRes, pods, migrating, ninv, installer>>

\* ZoneOperations.Get fails (always so when the context is cancelled): the
\* error is returned
pollError ==
    /\ wait.pc = "poll"
    /\ wait.polls < MaxPolls
    /\ wait' = Returned("err")
    /\ UNCHANGED <<pool, lastWriter, scanResult, prov, cloud, call, log, inv, lock, vm, opRes, pods, migrating, ninv, installer>>

\* the select: the 100 ms timer fires, and the loop polls again
selectAfter ==
    /\ wait.pc = "select"
    /\ wait' = [wait EXCEPT !.pc = "poll"]
    /\ UNCHANGED <<pool, lastWriter, scanResult, prov, cloud, call, log, inv, lock, vm, opRes, pods, migrating, ninv, installer>>

\* the select: ctx.Done() is ready, ctx.Err() is returned
selectDone ==
    /\ wait.pc = "select"
    /\ wait.ctx = "cancelled"
    /\ wait' = [wait EXCEPT !.pc = "returned", !.ret = "err"]
    /\ UNCHANGED <<pool, lastWriter, scanResult, prov, cloud, call, log, inv, lock, vm, opRes, pods, migrating, ninv, installer>>

(***************************************************************************)

(* The gcp-ipam CNI driver: cmdAdd and cmdDel                              *)
(***************************************************************************)
Self(p) == NodeOf(p)

Pod(ip, node, moveOut) == [ip |-> ip, node |-> node, moveOut |-> moveOut]

\* a migration of ip from node from to node to; orig: the destination pod's
\* live.cast.ai/original-instance ("" : the annotation is absent)
Migration(ip, from, to, orig) == [ip |-> ip, from |-> from, to |-> to, orig |-> orig]

Active(q) == inv[q].pc \notin {"idle", "returned"}

\* a fileLock.Lock() that returns without waiting for the holder
LockNotAwaited(n) == TRUE

\* fileLock.Lock() returns when no other process holds the lock
LockGranted(n) == lock[n] = 0

\* the result of cmdAdd: the address is newAddress with the mask of the
\* subnet's primary CIDR; gw is the IP net.ParseCIDR returns for
\* allocationResult.CIDR, which is the address as written, and gw[15] + 1
\* is byte arithmetic
CNIResult(subnetCIDR, newAddress, allocCIDR) ==
    LET gw == ParseCIDR(allocCIDR).ip
    IN  [address |-> [ip |-> newAddress, ones |-> subnetCIDR.ones],
         gateway |-> <<gw[1], gw[2], gw[3], (gw[4] + 1) % 256>>]

\* the verb returns ret; the deferred fileLock.Unlock() runs. An ADD that
\* returns nil has printed its result
Ret(p, ret) ==
    /\ inv' = [inv EXCEPT ![p] = [IdleInv EXCEPT !.pc = "returned", !.ret = ret,
                                                 !.verb = inv[p].verb,
                                                 !.reqIP = inv[p].reqIP,
                                                 !.moveOut = inv[p].moveOut,
                                                 !.netns = inv[p].netns,
                                                 !.podIP = inv[p].podIP,
                                                 !.newAddress = inv[p].newAddress,
                                                 !.result =
                                                    IF ret = "ok" /\ inv[p].verb = "ADD"
                                                    THEN CNIResult(cloud.primary,
                                                                   inv[p].newAddress,
                                                                   inv[p].cidr)
                                                    ELSE IdleInv.result]]
    /\ lock' = [lock EXCEPT ![Self(p)] = IF @ = p THEN 0 ELSE @]

\* the orchestrator's books when a verb returns: a successful ADD gives its pod
\* the IP; a successful DEL ends its pod
Booked(p, ret) ==
    IF ret # "ok" THEN pods' = pods /\ migrating' = migrating
    ELSE IF inv[p].verb = "ADD"
    THEN /\ pods' = pods \cup {Pod(inv[p].newAddress, Self(p), FALSE)}
         /\ migrating' = {m \in migrating : ~(m.ip = inv[p].reqIP /\ m.to = Self(p))}
    ELSE /\ pods' = pods \ {Pod(inv[p].podIP, Self(p), inv[p].moveOut)}
         /\ migrating' = migrating

Exit(p, ret) == Ret(p, ret) /\ Booked(p, ret)

\* fileLock.Lock() of cmdAdd and cmdDel
Lock(p) ==
    /\ inv[p].pc = "lock"
    /\ LockGranted(Self(p))
    /\ lock' = [lock EXCEPT ![Self(p)] = p]
    /\ inv' = [inv EXCEPT ![p].pc = "preamble"]
    /\ UNCHANGED <<pool, lastWriter, scanResult, prov, cloud, call, log, vm, opRes, pods, migrating, ninv, wait, installer>>

\* parseConfig, the pod GET, the metadata, the instance GET (in cmdDel the
\* second one, i), the subnet GET, the clients
Preamble(p) ==
    /\ inv[p].pc = "preamble"
    /\ inv' = [inv EXCEPT ![p].instance = Interface(vm[Self(p)].aliases, vm[Self(p)].fp),
                          ![p].pc = IF inv[p].verb = "ADD" THEN "allocate" ELSE "delUpdate"]
    /\ UNCHANGED <<pool, lastWriter, scanResult, prov, cloud, call, log, lock, vm, opRes, pods, migrating, ninv, wait, installer>>

\* a cmdAdd that goes to the attach whatever the annotations
AttachAtOnce(p) == "attach"

\* where cmdAdd goes once it has newAddress
AfterAllocate(p) == IF inv[p].origInst # "" THEN "srcGet" ELSE "attach"

\* a cmdAdd that calls Allocate on both paths, with the requested IP
AddAllocateAlways(p) ==
    /\ inv[p].pc = "allocate"
    /\ call' = [call EXCEPT ![p] = NewCall("Allocate", inv[p].reqIP, p)]
    /\ inv' = [inv EXCEPT ![p].pc = "allocating"]
    /\ UNCHANGED <<pool, lastWriter, scanResult, prov, cloud, log, lock, vm, opRes, pods, migrating, ninv, wait, installer>>

\* cmdAdd: allocator.Allocate is called (standard flow), or
\* allocator.GetAllocation reads the record (migration flow)
AddAllocate(p) ==
    /\ inv[p].pc = "allocate"
    /\ IF inv[p].reqIP = NoIP
       THEN /\ call' = [call EXCEPT ![p] = NewCall("Allocate", NoIP, p)]
            /\ inv' = [inv EXCEPT ![p].pc = "allocating"]
            /\ UNCHANGED <<lock, pods, migrating>>
       ELSE IF GetAllocation(pool, inv[p].reqIP).err = "none"
       THEN /\ inv' = [inv EXCEPT ![p].newAddress = inv[p].reqIP,
                                  ![p].cidr = GetAllocation(pool, inv[p].reqIP).result.cidr,
                                  ![p].pc = AfterAllocate(p)]
            /\ UNCHANGED <<call, lock, pods, migrating>>
       ELSE Exit(p, "err") /\ call' = call
    /\ UNCHANGED <<pool, lastWriter, scanResult, prov, cloud, log, vm, opRes, ninv, wait, installer>>

\* a cmdAdd that fails after Allocate whatever Allocate returned
AddAllocatedFails(p) ==
    /\ inv[p].pc = "allocating"
    /\ call[p].pc = "done"
    /\ Exit(p, "err")
    /\ call' = [call EXCEPT ![p] = IdleCall]
    /\ UNCHANGED <<pool, lastWriter, scanResult, prov, cloud, log, vm, opRes, ninv, wait, installer>>

\* cmdAdd: allocator.Allocate has returned
AddAllocated(p) ==
    /\ inv[p].pc = "allocating"
    /\ call[p].pc = "done"
    /\ IF call[p].res = "ok"
       THEN /\ inv' = [inv EXCEPT ![p].newAddress = call[p].ip,
                                  ![p].cidr = call[p].pre.cidr,
                                  ![p].pc = AfterAllocate(p)]
            /\ UNCHANGED <<lock, pods, migrating>>
       ELSE Exit(p, "err")
    /\ call' = [call EXCEPT ![p] = IdleCall]
    /\ UNCHANGED <<pool, lastWriter, scanResult, prov, cloud, log, vm, opRes, ninv, wait, installer>>

\* cmdAdd: the GET of the original instance
AddSrcGet(p) ==
    /\ inv[p].pc = "srcGet"
    /\ IF inv[p].origInst \in Nodes
       THEN /\ inv' = [inv EXCEPT ![p].src = Interface(vm[inv[p].origInst].aliases,
                                                        vm[inv[p].origInst].fp),
                                  ![p].pc = "srcUpdate"]
            /\ UNCHANGED <<lock, pods, migrating>>
       ELSE Exit(p, "err")
    /\ UNCHANGED <<pool, lastWriter, scanResult, prov, cloud, call, log, vm, opRes, ninv, wait, installer>>

\* a cmdAdd that goes to the attach without waiting for the operation on the
\* original instance
AddSrcUpdateNoWait(p) ==
    /\ inv[p].pc = "srcUpdate"
    /\ IF SubmitAccepted(inv[p].origInst, inv[p].src.fp)
       THEN /\ Submit(p, inv[p].origInst, Removed(inv[p].src.aliases, inv[p].reqIP))
            /\ inv' = [inv EXCEPT ![p].pc = "attach"]
            /\ UNCHANGED <<lock, pods, migrating>>
       ELSE Exit(p, "err") /\ UNCHANGED <<vm, opRes>>
    /\ UNCHANGED <<pool, lastWriter, scanResult, prov, cloud, call, log, ninv, wait, installer>>

\* cmdAdd: UpdateNetworkInterface on the original instance, without "<reqIP>/32"
AddSrcUpdate(p) ==
    /\ inv[p].pc = "srcUpdate"
    /\ IF SubmitAccepted(inv[p].origInst, inv[p].src.fp)
       THEN /\ Submit(p, inv[p].origInst, Removed(inv[p].src.aliases, inv[p].reqIP))
            /\ inv' = [inv EXCEPT ![p].pc = "srcWait"]
            /\ UNCHANGED <<lock, pods, migrating>>
       ELSE Exit(p, "err") /\ UNCHANGED <<vm, opRes>>
    /\ UNCHANGED <<pool, lastWriter, scanResult, prov, cloud, call, log, ninv, wait, installer>>

\* a cmdAdd that goes to the attach however the operation on the original
\* instance ended
AddSrcWaitGoesOn(p) ==
    /\ inv[p].pc = "srcWait"
    /\ opRes[p] # "none"
    /\ inv' = [inv EXCEPT ![p].pc = "attach"]
    /\ UNCHANGED <<lock, pods, migrating>>
    /\ opRes' = [opRes EXCEPT ![p] = "none"]
    /\ UNCHANGED <<pool, lastWriter, scanResult, prov, cloud, call, log, vm, ninv, wait, installer>>

\* cmdAdd: waitForInstanceOperation on the original instance's update
AddSrcWait(p) ==
    /\ inv[p].pc = "srcWait"
    /\ opRes[p] # "none"
    /\ IF waitOk(p)
       THEN /\ inv' = [inv EXCEPT ![p].pc = "attach"]
            /\ UNCHANGED <<lock, pods, migrating>>
       ELSE Exit(p, "err")
    /\ opRes' = [opRes EXCEPT ![p] = "none"]
    /\ UNCHANGED <<pool, lastWriter, scanResult, prov, cloud, call, log, vm, ninv, wait, installer>>

\* cmdAdd: UpdateNetworkInterface on this instance, with "<newAddress>/32"
\* appended to the alias list read in the preamble
AddAttach(p) ==
    /\ inv[p].pc = "attach"
    /\ IF SubmitAccepted(Self(p), inv[p].instance.fp)
       THEN /\ Submit(p, Self(p), inv[p].instance.aliases \cup {inv[p].newAddress})
            /\ inv' = [inv EXCEPT ![p].pc = "attachWait"]
            /\ UNCHANGED <<lock, pods, migrating>>
       ELSE Exit(p, "err") /\ UNCHANGED <<vm, opRes>>
    /\ UNCHANGED <<pool, lastWriter, scanResult, prov, cloud, call, log, ninv, wait, installer>>

\* cmdAdd: waitForInstanceOperation on this instance's update, and the result
AddAttachWait(p) ==
    /\ inv[p].pc = "attachWait"
    /\ opRes[p] # "none"
    /\ IF waitOk(p) THEN Exit(p, "ok") ELSE Exit(p, "err")
    /\ opRes' = [opRes EXCEPT ![p] = "none"]
    /\ UNCHANGED <<pool, lastWriter, scanResult, prov, cloud, call, log, vm, ninv, wait, installer>>

\* a cmdDel that goes on to Release when its interface update is rejected
DelUpdateThenRelease(p) ==
    /\ inv[p].pc = "delUpdate"
    /\ IF SubmitAccepted(Self(p), inv[p].instance.fp)
       THEN /\ Submit(p, Self(p), Removed(inv[p].instance.aliases, inv[p].podIP))
            /\ inv' = [inv EXCEPT ![p].pc = "delWait"]
       ELSE /\ inv' = [inv EXCEPT ![p].pc = "release"]
            /\ UNCHANGED <<vm, opRes>>
    /\ UNCHANGED <<pool, lastWriter, scanResult, prov, cloud, call, log, lock, pods, migrating, ninv, wait, installer>>

\* cmdDel: UpdateNetworkInterface on this instance, without "<ip>/32"
DelUpdate(p) ==
    /\ inv[p].pc = "delUpdate"
    /\ IF SubmitAccepted(Self(p), inv[p].instance.fp)
       THEN /\ Submit(p, Self(p), Removed(inv[p].instance.aliases, inv[p].podIP))
            /\ inv' = [inv EXCEPT ![p].pc = "delWait"]
            /\ UNCHANGED <<lock, pods, migrating>>
       ELSE Exit(p, "err") /\ UNCHANGED <<vm, opRes>>
    /\ UNCHANGED <<pool, lastWriter, scanResult, prov, cloud, call, log, ninv, wait, installer>>

\* a cmdDel that goes on to Release whatever the annotations
DelWaitThenRelease(p) ==
    /\ inv[p].pc = "delWait"
    /\ opRes[p] # "none"
    /\ IF ~waitOk(p) THEN Exit(p, "err")
       ELSE /\ inv' = [inv EXCEPT ![p].pc = "release"]
            /\ UNCHANGED <<lock, pods, migrating>>
    /\ opRes' = [opRes EXCEPT ![p] = "none"]
    /\ UNCHANGED <<pool, lastWriter, scanResult, prov, cloud, call, log, vm, ninv, wait, installer>>

\* a cmdDel that goes on to Release however its operation ended
DelWaitAlwaysReleases(p) ==
    /\ inv[p].pc = "delWait"
    /\ opRes[p] # "none"
    /\ IF inv[p].moveOut THEN Exit(p, "ok")
       ELSE /\ inv' = [inv EXCEPT ![p].pc = "release"]
            /\ UNCHANGED <<lock, pods, migrating>>
    /\ opRes' = [opRes EXCEPT ![p] = "none"]
    /\ UNCHANGED <<pool, lastWriter, scanResult, prov, cloud, call, log, vm, ninv, wait, installer>>

\* cmdDel: waitForInstanceOperation; a migration flow returns here
DelWait(p) ==
    /\ inv[p].pc = "delWait"
    /\ opRes[p] # "none"
    /\ IF ~waitOk(p) THEN Exit(p, "err")
       ELSE IF inv[p].moveOut THEN Exit(p, "ok")
       ELSE /\ inv' = [inv EXCEPT ![p].pc = "release"]
            /\ UNCHANGED <<lock, pods, migrating>>
    /\ opRes' = [opRes EXCEPT ![p] = "none"]
    /\ UNCHANGED <<pool, lastWriter, scanResult, prov, cloud, call, log, vm, ninv, wait, installer>>

\* cmdDel: allocator.Release is called
DelRelease(p) ==
    /\ inv[p].pc = "release"
    /\ call' = [call EXCEPT ![p] = NewCall("Release", inv[p].podIP, p)]
    /\ inv' = [inv EXCEPT ![p].pc = "releasing"]
    /\ UNCHANGED <<pool, lastWriter, scanResult, prov, cloud, log, lock, vm, opRes, pods, migrating, ninv, wait, installer>>

\* cmdDel: buildDynamicClient fails; cmdDel returns nil
DelClientError(p) ==
    /\ inv[p].pc = "release"
    /\ Exit(p, "ok")
    /\ UNCHANGED <<pool, lastWriter, scanResult, prov, cloud, call, log, vm, opRes, ninv, wait, installer>>

\* a cmdDel that returns the error of Release
DelReleasedFailing(p) ==
    /\ inv[p].pc = "releasing"
    /\ call[p].pc = "done"
    /\ Exit(p, IF call[p].res = "ok" THEN "ok" ELSE "err")
    /\ call' = [call EXCEPT ![p] = IdleCall]
    /\ UNCHANGED <<pool, lastWriter, scanResult, prov, cloud, log, vm, opRes, ninv, wait, installer>>

\* cmdDel: allocator.Release has returned; its error is logged, cmdDel returns nil
DelReleased(p) ==
    /\ inv[p].pc = "releasing"
    /\ call[p].pc = "done"
    /\ Exit(p, "ok")
    /\ call' = [call EXCEPT ![p] = IdleCall]
    /\ UNCHANGED <<pool, lastWriter, scanResult, prov, cloud, log, vm, opRes, ninv, wait, installer>>

\* a step of the driver that talks to the cluster API, the metadata server or
\* the cloud fails (for a wait: a poll of the operation fails): the verb
\* returns the error
rpcError(p) ==
    /\ \/ inv[p].pc \in {"preamble", "srcGet", "srcUpdate", "srcWait", "attach",
                         "attachWait", "delUpdate", "delWait"}
       \/ inv[p].pc = "allocate" /\ inv[p].reqIP # NoIP
    /\ Exit(p, "err")
    /\ opRes' = [opRes EXCEPT ![p] = "none"]
    /\ UNCHANGED <<pool, lastWriter, scanResult, prov, cloud, call, log, vm, ninv, wait, installer>>

(***************************************************************************)
(* The node's container runtime and the migration controller, which invoke *)
(* the driver, and the driver on two hosts sharing one pool                *)
(***************************************************************************)
MaxInv == 2

CniCIDR == Cidr(10, 111, 0, 0, 30)

X1 == <<10, 111, 0, 1>>

CanStart(p) == ~Active(p) /\ ninv < MaxInv

Start(p, rec) ==
    /\ inv' = [inv EXCEPT ![p] = [rec EXCEPT !.pc = "lock"]]
    /\ ninv' = ninv + 1

\* ADD for a pod without live.cast.ai annotations
AddStart(p) ==
    /\ CanStart(p)
    /\ Start(p, [IdleInv EXCEPT !.verb = "ADD"])
    /\ UNCHANGED <<pool, lastWriter, scanResult, prov, cloud, call, log, lock, vm, opRes, pods, migrating, wait, installer>>

\* ADD for the destination pod of a migration m, first or repeated after a
\* failure: live.cast.ai/ip = m.ip, live.cast.ai/original-instance = m.orig;
\* the source pod gets move-out-ip
AddStartMigration(p, m) ==
    /\ CanStart(p)
    /\ m.to = Self(p)
    /\ m.from # m.to
    /\ \A q \in Procs : Active(q) => inv[q].reqIP # m.ip /\ inv[q].podIP # m.ip
    /\ \/ m \in migrating
       \/ /\ Pod(m.ip, m.from, FALSE) \in pods
          /\ \A m2 \in migrating : m2.ip # m.ip
    /\ Start(p, [IdleInv EXCEPT !.verb = "ADD", !.reqIP = m.ip, !.origInst = m.orig,
                                !.from = m.from])
    /\ pods' = (pods \ {Pod(m.ip, m.from, FALSE)}) \cup {Pod(m.ip, m.from, TRUE)}
    /\ migrating' = migrating \cup {m}
    /\ UNCHANGED <<pool, lastWriter, scanResult, prov, cloud, call, log, lock, vm, opRes, wait, installer>>

\* DEL for a pod of this node, with CNI_NETNS set
DelStart(p, P) ==
    /\ CanStart(p)
    /\ P \in pods
    /\ P.node = Self(p)
    /\ \A q \in Procs : Active(q) => inv[q].podIP # P.ip
    /\ Start(p, [IdleInv EXCEPT !.verb = "DEL", !.podIP = P.ip, !.moveOut = P.moveOut])
    /\ UNCHANGED <<pool, lastWriter, scanResult, prov, cloud, call, log, lock, vm, opRes, pods, migrating, wait, installer>>

\* a cmdDel that goes to fileLock.Lock() whatever args.Netns
DelNoNetnsLocks(p, P) ==
    /\ CanStart(p)
    /\ P \in pods
    /\ P.node = Self(p)
    /\ \A q \in Procs : Active(q) => inv[q].podIP # P.ip
    /\ Start(p, [IdleInv EXCEPT !.verb = "DEL", !.podIP = P.ip, !.moveOut = P.moveOut,
                                !.netns = FALSE])
    /\ UNCHANGED <<pool, lastWriter, scanResult, prov, cloud, call, log, lock, vm, opRes, pods, migrating, wait, installer>>

\* cmdDel with args.Netns == "": returns nil at once
DelNoNetns(p, P) ==
    /\ CanStart(p)
    /\ P \in pods
    /\ P.node = Self(p)
    /\ \A q \in Procs : Active(q) => inv[q].podIP # P.ip
    /\ inv' = [inv EXCEPT ![p] = [IdleInv EXCEPT !.verb = "DEL", !.podIP = P.ip,
                                                 !.moveOut = P.moveOut, !.netns = FALSE,
                                                 !.pc = "returned",
                                                 !.ret = "ok"]]
    /\ ninv' = ninv + 1
    /\ UNCHANGED <<pool, lastWriter, scanResult, prov, cloud, call, log, lock, vm, opRes, pods, migrating, wait, installer>>

\* the pool as provisioned, or the state after one ADD on node A that
\* returned X1
InitCNI ==
    /\ lastWriter = "init"
    /\ scanResult = NoScan
    /\ prov = IdleProv
    /\ cloud = NoCloud
    /\ call = [p \in Procs |-> IdleCall]
    /\ log = <<>>
    /\ inv = [p \in Procs |-> IdleInv]
    /\ lock = [n \in Nodes |-> 0]
    /\ opRes = [p \in Procs |-> "none"]
    /\ migrating = {}
    /\ ninv = 0
    /\ wait = IdleWait
    /\ installer = IdleInstaller
    /\ \/ /\ pool = NewPool(CniCIDR)
          /\ vm = [n \in Nodes |-> [aliases |-> {}, fp |-> 1, op |-> NoOp]]
          /\ pods = {}
       \/ /\ pool = [WithStatus([NewPool(CniCIDR) EXCEPT
                                    !.allocations = MapPut(@, X1, IPAllocation(1, "A"))])
                        EXCEPT !.rv = 2]
          /\ vm = [n \in Nodes |-> IF n = "A" THEN [aliases |-> {X1}, fp |-> 2, op |-> NoOp]
                                            ELSE [aliases |-> {}, fp |-> 1, op |-> NoOp]]
          /\ pods = {Pod(X1, "A", FALSE)}

NextCNI ==
    \/ \E p \in Procs :
        \/ AddStart(p)
        \/ \E ip \in UsableAddrs(CniCIDR), from \in Nodes :
              \E orig \in {from, ""} : AddStartMigration(p, Migration(ip, from, Self(p), orig))
        \/ \E P \in pods : DelStart(p, P)
        \/ \E P \in pods : DelNoNetns(p, P)
        \/ Lock(p)
        \/ Preamble(p)
        \/ AddAllocate(p)
        \/ tryGet(p)
        \/ tryAllocate(p)
        \/ tryRelease(p)
        \/ apiError(p)
        \/ AddAllocated(p)
        \/ AddSrcGet(p)
        \/ AddSrcUpdate(p)
        \/ AddSrcWait(p)
        \/ AddAttach(p)
        \/ AddAttachWait(p)
        \/ DelUpdate(p)
        \/ DelWait(p)
        \/ DelRelease(p)
        \/ DelClientError(p)
        \/ DelReleased(p)
        \/ rpcError(p)
    \/ \E n \in Nodes : OpDone(n)
    \/ \E n \in Nodes : OpError(n)

SpecCNI == InitCNI /\ [][NextCNI]_vars

(***************************************************************************)
(* Properties of the driver                                                *)
(***************************************************************************)
\* between lock acquisition and return
InCritical(pc) == pc \notin {"idle", "lock", "returned"}

\* the step is p's allocator call writing the pool record
WritesPool(p) == call[p].pc = "update" /\ call'[p].pc = "done" /\ call'[p].res = "ok"

\* the step is p submitting an interface update on node n
SubmitsUpdate(p, n) == vm'[n].op # NoOp /\ vm'[n].op # vm[n].op /\ vm'[n].op.by = p

AddReturnsOk(p) ==
    /\ inv[p].verb = "ADD" /\ inv[p].pc # "returned"
    /\ inv'[p].pc = "returned" /\ inv'[p].ret = "ok"

\* C4: when a successful ADD returns IP X, X is a key of the pool's
\* allocations and X/32 is in the alias list of this VM's interface, on the
\* standard and on the migration path, under any interleaving with the
\* invocations of other hosts.
C4_AddPostcondition ==
    [][\A p \in Procs :
         AddReturnsOk(p) =>
            /\ inv'[p].newAddress # NoIP
            /\ pool'.exists
            /\ inv'[p].newAddress \in DOMAIN pool'.allocations
            /\ inv'[p].newAddress \in vm'[Self(p)].aliases]_vars

AddReturnedOk(p, migration) ==
    /\ inv[p].verb = "ADD" /\ inv[p].pc = "returned" /\ inv[p].ret = "ok"
    /\ (inv[p].reqIP # NoIP) = migration
    /\ inv[p].newAddress \in DOMAIN pool.allocations
    /\ inv[p].newAddress \in vm[Self(p)].aliases

\* a standard ADD on one host and a migration ADD on the other have returned ok
C4_Witness ==
    \E p, q \in Procs : Self(p) # Self(q) /\ AddReturnedOk(p, FALSE) /\ AddReturnedOk(q, TRUE)

\* p runs a migration ADD: its pod carries live.cast.ai/ip
MigrationAdd(p) == inv[p].verb = "ADD" /\ InCritical(inv[p].pc) /\ inv[p].reqIP # NoIP

\* ... and live.cast.ai/original-instance, naming the source VM
NamesSource(p) == inv[p].origInst = inv[p].from

\* C2 (as stated): during a migration ADD for X, X/32 is never in the alias
\* list of both the source VM and the destination VM.
C2_NeverOnBoth ==
    \A p \in Procs :
        MigrationAdd(p) =>
            ~(inv[p].reqIP \in vm[inv[p].from].aliases /\ inv[p].reqIP \in vm[Self(p)].aliases)

\* C2 (amended): during a migration ADD for X whose pod names the source VM in
\* live.cast.ai/original-instance, the removal of X/32 from the source VM has
\* completed before the destination attach is submitted: from then until ADD
\* returns, X/32 is not in the source VM's alias list.
C2_DetachBeforeAttach ==
    \A p \in Procs :
        (MigrationAdd(p) /\ NamesSource(p) /\ inv[p].pc \in {"attach", "attachWait"}) =>
            inv[p].reqIP \notin vm[inv[p].from].aliases

\* the destination attach of such an ADD is in flight, X/32 was on the source
\* VM when the ADD read it and is there no longer
C2_Witness ==
    \E p \in Procs :
        /\ MigrationAdd(p) /\ NamesSource(p)
        /\ inv[p].pc = "attachWait"
        /\ inv[p].reqIP \in inv[p].src.aliases
        /\ inv[p].reqIP \notin vm[inv[p].from].aliases
        /\ vm[Self(p)].op.by = p
        /\ inv[p].reqIP \in vm[Self(p)].op.aliases

\* the step is p's DEL of a non-migration flow returning ok
DelReturnsOk(p) ==
    /\ inv[p].verb = "DEL" /\ InCritical(inv[p].pc) /\ ~inv[p].moveOut
    /\ inv'[p].pc = "returned" /\ inv'[p].ret = "ok"

MaxProvRuns == 2

MaxProvCalls == 2

\* the secondary range's CIDR, and the CIDR after the range was changed
ProvCIDRs == {Cidr(10, 111, 0, 0, 30), Cidr(10, 111, 0, 0, 29)}

InitProv ==
    /\ pool = NoPool
    /\ lastWriter = "init"
    /\ scanResult = NoScan
    /\ prov = IdleProv
    /\ cloud = NoCloud
    /\ call = [p \in Procs |-> IdleCall]
    /\ log = <<>>
    /\ InitDriver

NextProv ==
    \/ prov.runs < MaxProvRuns /\ \E c \in ProvCIDRs : createOrUpdateIPPool(c, "live")
    \/ provGet
    \/ provUpdate
    \/ provCreate
    \/ \E p \in {1, 3} :
        \/ Started < MaxProvCalls /\ Allocate(p, NoIP)
        \/ Started < MaxProvCalls /\ \E ip \in AskedIPs(CniCIDR) : Allocate(p, ip)
        \/ Started < MaxProvCalls /\ \E ip \in AskedIPs(CniCIDR) : Release(p, ip)
        \/ tryGet(p)
        \/ tryAllocate(p)
        \/ tryRelease(p)
        \/ apiError(p)

SpecProv == InitProv /\ [][NextProv]_vars

\* C11: in every reachable state of an IPPool record, whatever sequence of
\* provisioner creates and updates, Allocate and Release produced it,
\* status.allocated = the number of keys of allocations, status.available =
\* status.capacity - status.allocated, and status.capacity is the value the
\* prefix length of cidr determines.
C11_StatusAlways ==
    pool.exists =>
        LET n == Cardinality(DOMAIN pool.allocations)
        IN  pool.status = Status(UsableCount(pool.cidr), n, UsableCount(pool.cidr) - n)

(***************************************************************************)
(* One call that loses its attempts to another client's writes             *)
(***************************************************************************)
MaxContend == 10

\* an address outside the pool's CIDR, never a key of allocations
Outside == <<192, 168, 0, 7>>

\* Release calls process 3 has started
Contended == Cardinality({n \in DOMAIN log : log[n].p = 3}) + (IF Running(3) THEN 1 ELSE 0)

\* process 1 makes one call, Allocate or Release; process 3, on the other
\* node, calls Release again and again: each of its accepted writes makes the
\* record read before it stale
NextRetry ==
    \/ /\ call[1].pc = "idle"
       /\ \/ Allocate(1, NoIP)
          \/ Release(1, X1)
    \/ Contended < MaxContend /\ Release(3, Outside)
    \/ \E p \in {1, 3} :
        \/ tryGet(p)
        \/ tryAllocate(p)
        \/ tryRelease(p)

SpecRetry == InitPool({CniCIDR}) /\ [][NextRetry]_vars

\* the step ends p's last attempt in a Conflict and the call gives up
GivesUp(p) == call[p].pc = "update" /\ call'[p].res = "ConflictExhausted"

\* C12: Allocate and Release each make at most MaxRetries (10) attempts; when
\* all 10 attempts end in a Conflict the call fails with ConflictExhausted, and
\* it has written nothing: the only step of a call that changes the record is
\* the accepted Update with which it returns ok.
C12_BoundedRetry ==
    [][/\ \A p \in Procs :
            /\ call'[p].i < MaxRetries
            /\ GivesUp(p) => /\ call[p].i = MaxRetries - 1
                             /\ ~UpdateAccepted(call[p].snap)
                             /\ pool' = pool
            /\ (call[p].pc = "update" /\ call'[p] # call[p]
                  /\ ~UpdateAccepted(call[p].snap)
                  /\ call[p].i = MaxRetries - 1) => GivesUp(p)
       /\ pool' # pool => \E p \in Procs : WritesPool(p)]_vars

\* the call of process 1 has lost 10 attempts to Conflicts and failed with
\* ConflictExhausted
C12_Witness ==
    /\ call[1].pc = "done" /\ call[1].res = "ConflictExhausted" /\ call[1].i = MaxRetries - 1
    /\ \E n \in DOMAIN log :
          log[n].p = 1 /\ log[n].res = "ConflictExhausted" /\ log[n].attempts = MaxRetries

(***************************************************************************)
(* Calls that fail: no record, no free address, address taken, API error   *)
(***************************************************************************)
MaxErrCalls == 3

ErrCIDRs == {Cidr(10, 111, 0, 0, 30), Cidr(10, 0, 0, 9, 32)}

\* no record yet, or the record of a /30 or a /32 as provisioned
InitErr ==
    /\ \/ pool = NoPool
       \/ \E c \in ErrCIDRs : pool = NewPool(c)
    /\ lastWriter = "init"
    /\ scanResult = NoScan
    /\ prov = IdleProv
    /\ cloud = NoCloud
    /\ call = [p \in Procs |-> IdleCall]
    /\ log = <<>>
    /\ InitDriver

NextErr ==
    \E p \in {1, 3} :
        \/ Started < MaxErrCalls /\ Allocate(p, NoIP)
        \/ Started < MaxErrCalls /\ Allocate(p, X1)
        \/ Started < MaxErrCalls /\ Release(p, X1)
        \/ tryGet(p)
        \/ tryAllocate(p)
        \/ tryRelease(p)
        \/ apiError(p)

SpecErr == InitErr /\ [][NextErr]_vars

\* the step takes p's call to its next attempt
Retries(p) == call'[p].i = call[p].i + 1

\* the Update of p's attempt is answered with a Conflict
Conflicts(p) == call[p].pc = "update" /\ pool.exists /\ call[p].snap.rv # pool.rv

\* the error tryAllocate finds on the record it read, before its Update
FoundError(p) ==
    IF call[p].pc = "update" /\ call[p].op = "Allocate"
    THEN tryAllocateLocal(call[p].snap, call[p].reqIP, call[p].podUID, NodeOf(p)).err
    ELSE "none"

\* the step ends p's call with an error
Fails(p) == Running(p) /\ call'[p].pc = "done" /\ call'[p].res # "ok"

\* C13: in Allocate and Release only a Conflict leads to another attempt; a
\* missing record (NotFound), an exhausted pool, an already-allocated
\* requestedIP or any other error ends the call after that attempt with that
\* error, and the record is unchanged by the call.
C13_OnlyConflictRetries ==
    [][\A p \in Procs :
         /\ Retries(p) => Conflicts(p) /\ FoundError(p) = "none"
         /\ (Running(p) /\ call'[p] # call[p] /\ FoundError(p) # "none") =>
                Fails(p) /\ call'[p].res \in {FoundError(p), "Error"}
         /\ (call[p].pc = "get" /\ call'[p] # call[p] /\ ~pool.exists) =>
                Fails(p) /\ call'[p].res \in {"NotFound", "Error"}
         /\ Fails(p) =>
                /\ pool' = pool
                /\ call'[p].i = call[p].i
                /\ call'[p].pre = NoPool]_vars

\* a call went to a second attempt after a Conflict and there ended with
\* AlreadyAllocated; calls have ended with NotFound, PoolExhausted and an API
\* error in other behaviours of the same specification
C13_Witness ==
    \E p \in Procs :
        /\ call[p].pc = "done" /\ call[p].res = "AlreadyAllocated" /\ call[p].i = 1
        /\ \E n \in DOMAIN log : log[n].res = "ok" /\ log[n].ip = call[p].reqIP

\* p's Allocate with a requestedIP takes a step from the record it read
AsksStep(p) ==
    /\ call[p].pc = "update" /\ call[p].op = "Allocate" /\ call[p].reqIP # NoIP
    /\ call'[p] # call[p]

\* C14: Allocate with a requestedIP succeeds only if that IP is not a key of
\* allocations in the record it read, and then returns exactly that IP, now a
\* key; if the IP is a key, the call fails with AlreadyAllocated in that
\* attempt, without another attempt, and the record is unchanged.
C14_RequestedIP ==
    [][\A p \in Procs :
         AsksStep(p) =>
            IF call[p].reqIP \in DOMAIN call[p].snap.allocations
            THEN /\ call'[p].pc = "done"
                 /\ call'[p].res \in {"AlreadyAllocated", "Error"}
                 /\ pool' = pool
            ELSE call'[p].res = "ok" =>
                    /\ call'[p].ip = call[p].reqIP
                    /\ pool.rv = call[p].snap.rv
                    /\ DOMAIN pool'.allocations =
                          DOMAIN call[p].snap.allocations \cup {call[p].reqIP}]_vars

\* one call got the address it asked for; another call that asked for the
\* same address failed with AlreadyAllocated in its first attempt
C14_Witness ==
    \E p, q \in Procs :
        /\ call[p].pc = "done" /\ call[p].res = "ok" /\ call[p].ip = X1 /\ call[p].reqIP = X1
        /\ call[q].pc = "done" /\ call[q].res = "AlreadyAllocated" /\ call[q].reqIP = X1
        /\ call[q].i = 0
        /\ X1 \in DOMAIN pool.allocations

(***************************************************************************)
(* One call and then a Release, one after the other, from any pool state   *)
(***************************************************************************)
\* the address the second call releases: the one the first call returned, or
\* the one it released
Released == IF call[1].op = "Allocate" THEN call[1].ip ELSE call[1].reqIP

\* process 1 calls Allocate, Release or GetAllocation; when an Allocate or a
\* Release has returned ok, process 3 calls Release for the same address
NextRound ==
    \/ /\ call[1].pc = "idle"
       /\ \/ Allocate(1, NoIP)
          \/ \E ip \in AskedIPs(pool.cidr) : Allocate(1, ip)
          \/ \E ip \in AskedIPs(pool.cidr) : Release(1, ip)
          \/ \E ip \in AskedIPs(pool.cidr) : GetAllocationCall(1, ip)
    \/ /\ call[1].pc = "done" /\ call[1].res = "ok" /\ call[1].op # "GetAllocation"
       /\ call[3].pc = "idle"
       /\ Release(3, Released)
    \/ \E p \in {1, 3} :
        \/ tryGet(p)
        \/ tryAllocate(p)
        \/ tryRelease(p)

SpecRound == InitScan /\ [][NextRound]_vars

SameAllocations(a, b) ==
    /\ DOMAIN a = DOMAIN b
    /\ \A k \in DOMAIN a : a[k] = b[k]

\* both calls have returned ok, the first being op
BothDone(op) ==
    /\ call[1].pc = "done" /\ call[1].res = "ok" /\ call[1].op = op
    /\ call[3].pc = "done" /\ call[3].res = "ok"

\* C15: for any pool state, a successful Allocate followed by a successful
\* Release of the IP it returned leaves the keys of allocations, and the entry
\* under each key, equal to what they were before the Allocate.
C15_RoundTrip ==
    BothDone("Allocate") => SameAllocations(pool.allocations, call[1].pre.allocations)

\* the round trip was made on a record that held other allocations, and the
\* address allocated in between is no longer a key
C15_Witness ==
    /\ BothDone("Allocate")
    /\ DOMAIN call[1].pre.allocations # {}
    /\ call[1].ip \in DOMAIN call[3].pre.allocations
    /\ call[1].ip \notin DOMAIN pool.allocations
    /\ SameAllocations(pool.allocations, call[1].pre.allocations)

\* p's Release takes a step from a record read in which the address is not a key
ReleasesAbsent(p) ==
    /\ call[p].pc = "update" /\ call[p].op = "Release"
    /\ call[p].reqIP \notin DOMAIN call[p].snap.allocations
    /\ call'[p] # call[p]

\* C16: Release of an IP that is not a key of allocations succeeds, leaves
\* allocations unchanged and still writes the record, with recomputed status;
\* hence Release applied twice to the same IP yields the same allocations as
\* Release applied once.
C16_ReleaseAbsent ==
    [][/\ \A p \in Procs :
            ReleasesAbsent(p) =>
                /\ call'[p].res = "ok"
                /\ SameAllocations(pool'.allocations, pool.allocations)
                /\ pool'.rv = pool.rv + 1
                /\ lastWriter' = "Release"
                /\ LET n == Cardinality(DOMAIN pool.allocations)
                   IN  pool'.status =
                          Status(UsableCount(pool.cidr), n, UsableCount(pool.cidr) - n)
       /\ (/\ call'[1].pc = "done" /\ call'[1].res = "ok" /\ call'[1].op = "Release"
           /\ call'[3].pc = "done" /\ call'[3].res = "ok") =>
                SameAllocations(pool'.allocations, call'[3].pre.allocations)]_vars

\* an address was a key, a first Release removed it and a second Release of
\* the same address has rewritten the record
C16_Witness ==
    /\ BothDone("Release")
    /\ call[1].reqIP \in DOMAIN call[1].pre.allocations
    /\ call[3].reqIP = call[1].reqIP
    /\ call[3].reqIP \notin DOMAIN call[3].pre.allocations
    /\ pool.rv = call[3].pre.rv + 1
    /\ SameAllocations(pool.allocations, call[3].pre.allocations)

\* the step is p's GetAllocation
GetsAllocation(p) == call'[p].op = "GetAllocation" /\ call'[p] # call[p]

\* C17: GetAllocation never writes the pool record; it returns the pool's
\* cidr, subnet and secondaryRangeName when the IP is a key of allocations,
\* and fails with NotAllocated when the IP is absent or there are no
\* allocations.
C17_GetAllocation ==
    [][\A p \in Procs :
         GetsAllocation(p) =>
            /\ pool' = pool
            /\ lastWriter' = lastWriter
            /\ IF call'[p].reqIP \in DOMAIN pool.allocations
               THEN /\ call'[p].res = "ok"
                    /\ call'[p].result =
                          AllocationResult(call'[p].reqIP, pool.cidr, pool.subnet,
                                           pool.secondaryRangeName)
               ELSE /\ call'[p].res = "NotAllocated"
                    /\ call'[p].result = NoResult]_vars

\* a GetAllocation has found its address in a record with that key
C17_Witness ==
    /\ call[1].pc = "done" /\ call[1].op = "GetAllocation" /\ call[1].res = "ok"
    /\ call[1].reqIP \in DOMAIN pool.allocations
    /\ call[1].result.cidr = pool.cidr
    /\ pool.rv = 1

(***************************************************************************)
(* Two concurrent Allocate calls, one from each node                       *)
(***************************************************************************)
TwoCIDRs == {Cidr(10, 111, 0, 0, 30), Cidr(10, 0, 0, 5, 29)}

\* a record of the CIDR with any of its usable addresses allocated
InitTwo ==
    /\ \E c \in TwoCIDRs : \E K \in SUBSET UsableAddrs(c) :
          pool = WithStatus(IPPool(c, [k \in K |-> IPAllocation(0, "A")], Status(0, 0, 0), 1))
    /\ lastWriter = "init"
    /\ scanResult = NoScan
    /\ prov = IdleProv
    /\ cloud = NoCloud
    /\ call = [p \in Procs |-> IdleCall]
    /\ log = <<>>
    /\ InitDriver

NextTwo ==
    \E p \in {1, 3} :
        \/ call[p].pc = "idle" /\ Allocate(p, NoIP)
        \/ tryGet(p)
        \/ tryAllocate(p)

SpecTwo == InitTwo /\ [][NextTwo]_vars

\* both calls hold the current record: they contend in this round
Contend(c, pl) == \A p \in {1, 3} : c[p].pc = "update" /\ c[p].snap.rv = pl.rv

\* in a round in which both contend, the first Update is accepted if the
\* caller found an address, and then the other's Update is a Conflict
OnePerRound ==
    Contend(call, pool) =>
        \A p, q \in {1, 3} :
            (p # q /\ call'[p] # call[p] /\ FoundError(p) = "none") =>
                /\ call'[p].res = "ok"
                /\ pool'.rv = pool.rv + 1
                /\ call'[q].snap.rv # pool'.rv

BothReturned(c) == \A p \in {1, 3} : c[p].pc = "done"

BothDistinct(c) == c[1].res = "ok" /\ c[3].res = "ok" /\ c[1].ip # c[3].ip

\* the free addresses of the record before the two calls
FreeBefore(c, pl) ==
    Cardinality(UsableAddrs(pl.cidr) \ DOMAIN pl.allocations)
        + Cardinality({p \in {1, 3} : c[p].res = "ok"})

\* C18 (as stated): for two concurrent Allocate calls on one pool, one write
\* is accepted per contended round, and after at most 10 rounds either both
\* have succeeded with distinct IPs or one has failed with ConflictExhausted.
C18_TwoCalls ==
    [][/\ OnePerRound
       /\ \A p \in {1, 3} : call'[p].i < MaxRetries
       /\ BothReturned(call') =>
             \/ BothDistinct(call')
             \/ \E p \in {1, 3} : call'[p].res = "ConflictExhausted"]_vars

\* C18 (amended): for two concurrent Allocate calls without requestedIP on a
\* pool with at least two free addresses, one write is accepted per contended
\* round and both calls succeed with distinct IPs, after at most 10 attempts
\* each; on a pool with fewer free addresses the calls that find none fail
\* with PoolExhausted.
C18_TwoCallsWithRoom ==
    [][/\ OnePerRound
       /\ \A p \in {1, 3} : call'[p].i < MaxRetries
       /\ BothReturned(call') =>
             IF FreeBefore(call', pool') >= 2 THEN BothDistinct(call')
             ELSE Cardinality({p \in {1, 3} : call'[p].res = "PoolExhausted"})
                     = 2 - FreeBefore(call', pool')]_vars

\* both calls read the same record, one lost the round to a Conflict and
\* succeeded in its second attempt with another address
C18_Witness ==
    /\ BothReturned(call) /\ BothDistinct(call)
    /\ \E p, q \in {1, 3} :
          /\ call[p].i = 0 /\ call[q].i = 1
          /\ call[q].pre.rv = call[p].pre.rv + 1
          /\ call[q].pre.allocations[call[p].ip].podUID = p

\* the record changes only by the write of a call of a process other than p
NoWriteBy(p) ==
    /\ ~WritesPool(p)
    /\ pool' # pool => \E q \in Procs \ {p} : WritesPool(q)

\* C19: a migration ADD (pod carries live.cast.ai/ip) never calls Allocate
\* and never writes the pool record: through it, to its return with ok or
\* with an error, the entry for the migrated IP stays as it was, with the
\* nodeName it had.
C19_MigrationAddReadsOnly ==
    [][\A p \in Procs :
         (inv[p].verb = "ADD" /\ inv[p].reqIP # NoIP /\ Active(p)) =>
            /\ call'[p] = IdleCall
            /\ NoWriteBy(p)
            /\ (pool.exists /\ inv[p].reqIP \in DOMAIN pool.allocations) =>
                  /\ inv[p].reqIP \in DOMAIN pool'.allocations
                  /\ pool'.allocations[inv[p].reqIP] = pool.allocations[inv[p].reqIP]]_vars

\* a migration ADD has returned ok on node B: the IP is an alias of B, and
\* its entry in the pool still names node A, where it was allocated
C19_Witness ==
    \E p \in Procs :
        /\ AddReturnedOk(p, TRUE)
        /\ Self(p) = "B"
        /\ pool.allocations[inv[p].reqIP].nodeName = "A"
        /\ inv[p].reqIP \notin vm["A"].aliases

\* the step is p's DEL of a migration flow returning ok
DelMoveOutReturnsOk(p) ==
    /\ inv[p].verb = "DEL" /\ InCritical(inv[p].pc) /\ inv[p].moveOut
    /\ inv'[p].pc = "returned" /\ inv'[p].ret = "ok"

\* C20: a DEL for a pod that carries live.cast.ai/move-out-ip removes
\* <ip>/32 from this VM's alias list as a non-migration DEL does, and leaves
\* the pool record unchanged: Release is not called.
C20_MoveOutDel ==
    [][\A p \in Procs :
         (inv[p].verb = "DEL" /\ inv[p].moveOut /\ Active(p)) =>
            /\ call'[p] = IdleCall
            /\ NoWriteBy(p)
            /\ inv'[p].pc # "release"
            /\ DelMoveOutReturnsOk(p) => inv[p].podIP \notin vm'[Self(p)].aliases]_vars

\* a DEL of a migration flow has returned ok: the IP is no alias of this VM
\* and is still a key of the pool
C20_Witness ==
    \E p \in Procs :
        /\ inv[p].verb = "DEL" /\ inv[p].pc = "returned" /\ inv[p].ret = "ok"
        /\ inv[p].moveOut /\ inv[p].netns
        /\ inv[p].podIP \in DOMAIN pool.allocations
        /\ inv[p].podIP \notin vm[Self(p)].aliases

\* the step is the runtime invoking DEL on p with an empty CNI_NETNS
DelInvokedNoNetns(p) ==
    /\ ~Active(p)
    /\ inv'[p] # inv[p]
    /\ inv'[p].verb = "DEL" /\ ~inv'[p].netns

\* C21: a DEL whose container namespace argument is empty returns success
\* immediately: it does not take the host lock (the step in which it is
\* invoked is the step in which it returns, whoever holds the lock), does not
\* read the pod (it never reaches the preamble), and changes neither an alias
\* list nor the pool record, nor starts an operation or a call that would.
C21_DelNoNetns ==
    [][\A p \in Procs :
         /\ DelInvokedNoNetns(p) =>
               /\ inv'[p].pc = "returned" /\ inv'[p].ret = "ok"
               /\ lock' = lock
               /\ vm' = vm
               /\ pool' = pool
               /\ call' = call
               /\ pods' = pods
         /\ (inv[p].verb = "DEL" /\ ~inv[p].netns) => ~Active(p)]_vars

\* a DEL with an empty CNI_NETNS has returned ok on node A while another
\* invocation on node A holds the host lock with an interface update in
\* flight; the pod's IP is still an alias of the VM and a key of the pool
C21_Witness ==
    \E p, q \in Procs :
        /\ p # q /\ Self(p) = Self(q)
        /\ inv[p].verb = "DEL" /\ ~inv[p].netns /\ inv[p].pc = "returned" /\ inv[p].ret = "ok"
        /\ lock[Self(p)] = q /\ inv[q].pc \in WaitPcs
        /\ inv[p].podIP \in vm[Self(p)].aliases
        /\ inv[p].podIP \in DOMAIN pool.allocations

\* the operation p submitted on node n with the fingerprint fp has been
\* applied: p has read the interface (fingerprints start at 1), p's operation
\* no longer runs there and the interface has a later fingerprint than the
\* one the accepted update carried
Completed(p, n, fp) == fp > 0 /\ vm[n].op.by # p /\ vm[n].fp > fp

\* C22: within one ADD the pool allocation (Allocate or GetAllocation) has
\* completed before any interface update is submitted; the source detach is
\* submitted before the destination attach, and its operation has completed
\* (the wait returned) before the destination attach is submitted; the CNI
\* result is emitted only after the wait for the destination attach has
\* returned success.
C22_AddOrder ==
    [][\A p \in Procs :
         inv[p].verb = "ADD" =>
            /\ \A n \in Nodes :
                  SubmitsUpdate(p, n) =>
                     /\ inv[p].newAddress # NoIP
                     /\ call[p] = IdleCall
                     /\ inv[p].pc = IF n = Self(p) THEN "attach" ELSE "srcUpdate"
            /\ (SubmitsUpdate(p, Self(p)) /\ inv[p].origInst # "") =>
                  Completed(p, inv[p].origInst, inv[p].src.fp)
            /\ AddReturnsOk(p) =>
                  /\ inv[p].pc = "attachWait"
                  /\ waitOk(p)
                  /\ Completed(p, Self(p), inv[p].instance.fp)]_vars

\* a migration ADD whose pod names the source VM is about to emit its result:
\* the source detach and the destination attach have both completed, in that
\* order, and the allocation was read before them
C22_Witness ==
    \E p \in Procs :
        /\ inv[p].verb = "ADD" /\ inv[p].pc = "attachWait" /\ waitOk(p)
        /\ inv[p].origInst \in Nodes
        /\ inv[p].newAddress = inv[p].reqIP /\ inv[p].reqIP # NoIP
        /\ Completed(p, inv[p].origInst, inv[p].src.fp)
        /\ Completed(p, Self(p), inv[p].instance.fp)
        /\ inv[p].reqIP \in inv[p].src.aliases
        /\ inv[p].reqIP \in vm[Self(p)].aliases

(***************************************************************************)
(* The driver where ADD cannot get an address: no pool record, a full      *)
(* pool, a pod whose IP the record does not hold                           *)
(***************************************************************************)
X2 == <<10, 111, 0, 2>>

\* the record of CniCIDR with the addresses K allocated on node A
PoolWith(K) ==
    WithStatus(IPPool(CniCIDR, [k \in K |-> IPAllocation(1, "A")], Status(0, 0, 0), 2))

\* node A runs the pods of the addresses K
NodeAWith(K) ==
    /\ vm = [n \in Nodes |-> IF n = "A" THEN [aliases |-> K, fp |-> 2, op |-> NoOp]
                                      ELSE [aliases |-> {}, fp |-> 1, op |-> NoOp]]
    /\ pods = {Pod(k, "A", FALSE) : k \in K}

\* the record was deleted, or deleted and provisioned again, while a pod
\* runs with X1; or the pool is full
InitAddFail ==
    /\ lastWriter = "init"
    /\ scanResult = NoScan
    /\ prov = IdleProv
    /\ cloud = NoCloud
    /\ call = [p \in Procs |-> IdleCall]
    /\ log = <<>>
    /\ inv = [p \in Procs |-> IdleInv]
    /\ lock = [n \in Nodes |-> 0]
    /\ opRes = [p \in Procs |-> "none"]
    /\ migrating = {}
    /\ ninv = 0
    /\ wait = IdleWait
    /\ installer = IdleInstaller
    /\ \/ pool = NoPool /\ NodeAWith({X1})
       \/ pool = NewPool(CniCIDR) /\ NodeAWith({X1})
       \/ pool = PoolWith({X1, X2}) /\ NodeAWith({X1, X2})

SpecAddFail == InitAddFail /\ [][NextCNI]_vars

\* p runs an ADD that has not got its address yet: it waits for the lock, or
\* is in the preamble or in the allocation step
EarlyAdd(p) ==
    inv[p].verb = "ADD" /\ inv[p].pc \in {"lock", "preamble", "allocate", "allocating"}

\* the step is that ADD returning an error
FailsEarly(p) == EarlyAdd(p) /\ inv'[p].pc = "returned" /\ inv'[p].ret = "err"

\* C23: an ADD that fails in the preamble or in the allocation step (no pool
\* record, pool exhausted, conflicts, API error, or the IP of a migration not
\* in the record) has changed neither the pool record nor an alias list: up
\* to and in the failing step it submits no interface update, the record
\* changes only by the accepted write of a call that returns ok, and the
\* call of the failing ADD did not return ok and replaced no record.
C23_EarlyFailure ==
    [][/\ \A p \in Procs :
            /\ EarlyAdd(p) => \A n \in Nodes : ~SubmitsUpdate(p, n)
            /\ FailsEarly(p) =>
                  /\ pool' = pool /\ vm' = vm
                  /\ inv'[p].newAddress = NoIP
                  /\ inv[p].pc = "allocating" =>
                        /\ call[p].res \in {"NotFound", "PoolExhausted", "ConflictExhausted", "Error"}
                        /\ call[p].pre = NoPool
       /\ pool' # pool => \E q \in Procs : WritesPool(q)]_vars

\* an ADD has failed with the pool exhausted while the other host runs: the
\* record and the alias lists are those of the full pool
C23_Witness ==
    \E p \in Procs :
        /\ inv[p].verb = "ADD" /\ inv[p].pc = "returned" /\ inv[p].ret = "err"
        /\ inv[p].newAddress = NoIP
        /\ \E n \in DOMAIN log : log[n].p = p /\ log[n].res = "PoolExhausted"
        /\ pool = PoolWith({X1, X2})
        /\ vm["A"].aliases = {X1, X2} /\ vm["B"].aliases = {}

\* p runs the source-side detach of a migration ADD
SrcPcs == {"srcGet", "srcUpdate", "srcWait"}

\* the source-side detach of p has failed: the GET of the original instance,
\* the update (rejected, or the request failed), or the operation ended with
\* an error
SrcDetachFailed(p) ==
    \/ inv[p].pc = "srcGet" /\ inv[p].origInst \notin Nodes
    \/ inv[p].pc = "srcUpdate" /\ ~SubmitAccepted(inv[p].origInst, inv[p].src.fp)
    \/ inv[p].pc = "srcWait" /\ opRes[p] = "ERROR"

\* C24: if the source-side detach of a migration ADD fails (the GET of the
\* original instance, the interface update or its completion wait), ADD
\* returns an error; it has submitted no destination attach and submits none,
\* and it has not written the pool record.
C24_SrcDetachFailure ==
    [][\A p \in Procs :
         (MigrationAdd(p) /\ inv[p].pc \in SrcPcs) =>
            /\ (SrcDetachFailed(p) /\ inv'[p] # inv[p]) =>
                  inv'[p].pc = "returned" /\ inv'[p].ret = "err"
            /\ inv'[p].pc = "attach" => (inv[p].pc = "srcWait" /\ waitOk(p))
            /\ ~SubmitsUpdate(p, Self(p))
            /\ NoWriteBy(p)
            /\ call'[p] = IdleCall]_vars

\* the operation a migration ADD on node B submitted on the source VM has
\* ended with an error and ADD is about to return it: X1 is still an alias of
\* node A, nothing was submitted on node B, and the record is as it was
C24_Witness ==
    \E p \in Procs :
        /\ MigrationAdd(p) /\ inv[p].pc = "srcWait" /\ opRes[p] = "ERROR"
        /\ inv[p].reqIP = X1 /\ inv[p].origInst = "A" /\ Self(p) = "B"
        /\ X1 \in vm["A"].aliases /\ X1 \notin vm["B"].aliases
        /\ vm["B"].op = NoOp /\ vm["B"].fp = inv[p].instance.fp
        /\ pool.rv = 2 /\ lastWriter = "init"

\* the steps of cmdDel up to the end of the alias removal
RemovalPcs == {"preamble", "delUpdate", "delWait"}

\* the alias removal of p has failed: the update was rejected, or the
\* operation ended with an error
RemovalFailed(p) ==
    \/ inv[p].pc = "delUpdate" /\ ~SubmitAccepted(Self(p), inv[p].instance.fp)
    \/ inv[p].pc = "delWait" /\ opRes[p] = "ERROR"

\* the step is p's DEL returning an error
DelReturnsErr(p) ==
    /\ inv[p].verb = "DEL" /\ inv[p].pc # "returned"
    /\ inv'[p].pc = "returned" /\ inv'[p].ret = "err"

\* C25: if the alias removal of a DEL fails (instance GET, interface update
\* or its completion wait), DEL returns an error and Release is not called:
\* the DEL has no allocator call before or after the failure and has not
\* written the pool record. Release is called only after the wait for the
\* removal has returned success.
C25_RemovalFailure ==
    [][\A p \in Procs :
         inv[p].verb = "DEL" =>
            /\ (inv[p].pc \in RemovalPcs /\ RemovalFailed(p) /\ inv'[p] # inv[p]) => DelReturnsErr(p)
            /\ inv[p].pc \in RemovalPcs => call[p] = IdleCall /\ call'[p] = IdleCall /\ NoWriteBy(p)
            /\ DelReturnsErr(p) => inv[p].pc \in RemovalPcs /\ pool' = pool
            /\ (inv'[p].pc = "release" /\ inv[p].pc # "release") =>
                  inv[p].pc = "delWait" /\ waitOk(p)]_vars

\* the operation a non-migration DEL submitted has ended with an error and
\* DEL is about to return it: the IP is still an alias of the VM and a key of
\* the record, which nobody has written
C25_Witness ==
    \E p \in Procs :
        /\ inv[p].verb = "DEL" /\ ~inv[p].moveOut
        /\ inv[p].pc = "delWait" /\ opRes[p] = "ERROR"
        /\ inv[p].podIP \in vm[Self(p)].aliases
        /\ inv[p].podIP \in DOMAIN pool.allocations
        /\ call[p] = IdleCall /\ lastWriter = "init"

\* the pool release of p's DEL has failed: the cluster client could not be
\* built (the DEL returns from the release step without a call), or Release
\* returned an error
ReleaseFailed(p) ==
    \/ inv[p].pc = "release" /\ inv'[p].pc = "returned"
    \/ inv[p].pc = "releasing" /\ call[p].pc = "done" /\ call[p].res # "ok" /\ inv'[p] # inv[p]

HasRead(p) ==
    inv[p].pc \in {"allocate", "allocating", "srcGet", "srcUpdate", "srcWait", "attach", "delUpdate"}

\* p is about to submit the update of its VM's interface
AboutToSubmit(p) == inv[p].pc \in {"attach", "delUpdate"}

Stale(p) == inv[p].instance.fp # vm[Self(p)].fp

PodsRange == SecondaryRange("pods", Cidr(10, 4, 0, 0, 29))

\* the secondary range "live" as an earlier run attached it
LiveRange == SecondaryRange("live", ReservedCIDR)

\* a record written for an earlier layout of the subnet: another cidr, subnet
\* and secondaryRangeName, X1 allocated
OldPool ==
    [PoolWith({X1}) EXCEPT !.cidr = Cidr(10, 111, 0, 0, 29), !.subnet = "projects/p/regions/r/subnetworks/old",
                           !.secondaryRangeName = "old"]

\* a fresh subnet; a reservation left by a run that failed before its patch;
\* a subnet and a record an earlier run provisioned
InitProvision ==
    /\ lastWriter = "init"
    /\ scanResult = NoScan
    /\ prov = IdleProv
    /\ call = [p \in Procs |-> IdleCall]
    /\ log = <<>>
    /\ InitDriver
    /\ \/ pool = NoPool /\ cloud = [NoCloud EXCEPT !.ranges = <<PodsRange>>]
       \/ pool = NoPool /\ cloud = [NoCloud EXCEPT !.ranges = <<PodsRange>>,
                                                   !.reservation = ReservedCIDR]
       \/ pool = OldPool /\ cloud = [NoCloud EXCEPT !.ranges = <<PodsRange, LiveRange>>,
                                                    !.fp = 2, !.reservation = ReservedCIDR]

NextProvision ==
    \/ prov.runs < MaxProvRuns /\ Provision("live")
    \/ subnetGet
    \/ rangeGet
    \/ rangeGetError
    \/ rangeCreate
    \/ \E created \in BOOLEAN : rangeCreateError(created)
    \/ \E resolved \in BOOLEAN : patch(resolved)
    \/ patchWait
    \/ \E ended \in BOOLEAN : patchWaitError(ended)
    \/ \E applied \in BOOLEAN : patchEnds(applied)
    \/ provGet
    \/ provGetError
    \/ provUpdate
    \/ provCreate
    \/ provError
    \/ Started < MaxProvCalls /\ Allocate(1, NoIP)
    \/ tryGet(1)
    \/ tryAllocate(1)

SpecProvision == InitProvision /\ [][NextProvision]_vars

\* the run has returned ok
ProvisionReturnedOk == prov.pc = "idle" /\ prov.ret = "ok" /\ prov.runs > 0

\* the step creates the reservation or submits a subnet patch
ReservesOrPatches ==
    \/ cloud'.reservation # cloud.reservation
    \/ cloud'.op # cloud.op /\ cloud'.op # NoRange

\* C28: over any number of sequential Provision runs with the same
\* secondaryRangeName the subnet never has two secondary ranges of that
\* name, and after a run that returned ok it has exactly one and the IPPool
\* record exists; a run that finds the named range on the subnet goes
\* straight to the IPPool record: a reservation is created and a subnet
\* patch is submitted only by a run that read a subnet without that range.
C28_ProvisionOnce ==
    [][/\ Cardinality(Named(cloud'.ranges, "live")) <= 1
       /\ ProvisionReturnedOk' =>
             /\ Cardinality(Named(cloud'.ranges, "live")) = 1
             /\ pool'.exists
       /\ ReservesOrPatches =>
             /\ prov.pc \in {"rangeCreate", "patch"}
             /\ Named(prov.subnet.ranges, prov.name) = {}
       /\ (prov.pc = "subnetGet" /\ Named(cloud.ranges, prov.name) # {} /\ prov' # prov) =>
             /\ prov'.pc \in {"get", "idle"}
             /\ cloud' = cloud]_vars

\* the second run has returned ok after the first one attached the range:
\* one range "live", one reservation, the record exists
C28_Witness ==
    /\ ProvisionReturnedOk /\ prov.runs = 2
    /\ Named(prov.subnet.ranges, "live") # {}
    /\ cloud.ranges = <<PodsRange, LiveRange>> /\ cloud.fp = 2
    /\ pool.exists /\ pool.cidr = ReservedCIDR /\ pool.rv > 1
    /\ lastWriter = "provisioner"


\* C29: an update the provisioner submits for an existing record is built
\* from the record it read: when it is accepted, the allocations of the
\* record are the ones read, the resourceVersion carried is the one read (and
\* still the current one), and cidr, subnet and secondaryRangeName are the
\* new values; when it is rejected the record is left as it is. A record the
\* provisioner creates has an empty allocations map and the new values.
C29_ProvisionerUpdate ==
    [][/\ (prov.pc = "update" /\ prov'.ret = "ok" /\ prov'.pc = "idle") =>
             /\ prov.existing.exists
             /\ SameAllocations(pool'.allocations, prov.existing.allocations)
             /\ prov.existing.rv = pool.rv
             /\ pool'.rv = prov.existing.rv + 1
             /\ pool'.cidr = prov.cidr
             /\ pool'.subnet = SubnetURL
             /\ pool'.secondaryRangeName = prov.srn
       /\ (prov.pc = "update" /\ prov'.ret = "err" /\ prov'.pc = "idle") =>
             pool' = pool
       /\ (prov.pc = "create" /\ prov'.ret = "ok" /\ prov'.pc = "idle") =>
             /\ ~pool.exists /\ pool'.exists
             /\ DOMAIN pool'.allocations = {}
             /\ pool'.cidr = prov.cidr
             /\ pool'.subnet = SubnetURL
             /\ pool'.secondaryRangeName = prov.srn]_vars

\* the provisioner has updated the record of the old range, which holds an
\* allocation: the allocation is still there, the three fields are new
C29_Witness ==
    /\ lastWriter = "provisioner"
    /\ prov.pc = "idle" /\ prov.ret = "ok"
    /\ prov.existing = OldPool
    /\ DOMAIN pool.allocations # {}
    /\ SameAllocations(pool.allocations, OldPool.allocations)
    /\ pool.rv = OldPool.rv + 1
    /\ pool.cidr = LiveRange.cidr /\ pool.cidr # OldPool.cidr
    /\ pool.subnet = SubnetURL /\ pool.subnet # OldPool.subnet
    /\ pool.secondaryRangeName = "live" /\ pool.secondaryRangeName # OldPool.secondaryRangeName


\* C30: when reserving the internal range has failed (GetInternalRange with
\* an error other than NotFound, CreateInternalRange, or the wait for its
\* operation), the step of Provision that follows the failure is its return
\* with an error: no subnet patch is submitted and the IPPool record is
\* neither created nor updated.
C30_RangeFailure ==
    [][(prov'.rangeErr /\ prov.pc # "idle" /\ prov' # prov) =>
          /\ prov'.pc = "idle" /\ prov'.ret = "err"
          /\ cloud'.op = cloud.op /\ cloud'.ranges = cloud.ranges
          /\ pool' = pool]_vars

\* a run whose reservation failed has patched the subnet and written the
\* record with the empty CIDR, and returned ok
C30_PatchedAfterFailure ==
    /\ prov.rangeErr /\ prov.pc = "idle" /\ prov.ret = "ok"
    /\ Named(cloud.ranges, "live") # {}
    /\ lastWriter = "provisioner" /\ pool.cidr = NoCidr


(***************************************************************************)
(* The provisioner started with --dry-run                                  *)
(***************************************************************************)
InitDryRun ==
    /\ lastWriter = "init"
    /\ scanResult = NoScan
    /\ prov = [IdleProv EXCEPT !.dryRun = TRUE]
    /\ call = [p \in Procs |-> IdleCall]
    /\ log = <<>>
    /\ InitDriver
    /\ \/ pool = NoPool /\ cloud = [NoCloud EXCEPT !.ranges = <<PodsRange>>]
       \/ pool = NoPool /\ cloud = [NoCloud EXCEPT !.ranges = <<PodsRange>>,
                                                   !.reservation = ReservedCIDR]
       \/ pool = OldPool /\ cloud = [NoCloud EXCEPT !.ranges = <<PodsRange, LiveRange>>,
                                                    !.fp = 2, !.reservation = ReservedCIDR]

SpecDryRun == InitDryRun /\ [][NextProvision]_vars

\* C31: a provisioner run with dryRun = true changes nothing: it creates no
\* internal-range reservation, submits no subnet patch (so the subnet's
\* ranges stay as they are), and neither creates nor updates the IPPool
\* record.
C31_DryRun ==
    [][prov.dryRun =>
          /\ cloud' = cloud
          /\ prov' # prov => pool' = pool]_vars

\* a run with dryRun = true has reserved a range, patched the subnet and
\* created the IPPool record
C31_DryRunChanged ==
    /\ prov.dryRun /\ prov.pc = "idle" /\ prov.ret = "ok"
    /\ cloud.reservation = ReservedCIDR
    /\ cloud.ranges = <<PodsRange, LiveRange>>
    /\ lastWriter = "provisioner" /\ pool.exists


(***************************************************************************)
(* The result of cmdAdd, over pool CIDRs written with the network address  *)
(* and with a host address, and over primary CIDRs of the subnet          *)
(***************************************************************************)
ResultCIDRs == {Cidr(10, 111, 0, 0, 30), Cidr(10, 0, 0, 5, 29), Cidr(10, 0, 0, 255, 24)}

PrimaryCIDRs == {Cidr(10, 128, 0, 0, 20), Cidr(10, 0, 16, 0, 24)}

InitResult ==
    /\ lastWriter = "init"
    /\ scanResult = NoScan
    /\ prov = IdleProv
    /\ call = [p \in Procs |-> IdleCall]
    /\ log = <<>>
    /\ InitDriver
    /\ \E c \in ResultCIDRs : pool = NewPool(c)
    /\ \E s \in PrimaryCIDRs : cloud = [NoCloud EXCEPT !.primary = s]

\* ADD invocations of one process on node A, one after the other
NextResult ==
    \/ AddStart(1)
    \/ Lock(1)
    \/ Preamble(1)
    \/ AddAllocate(1)
    \/ tryGet(1)
    \/ tryAllocate(1)
    \/ AddAllocated(1)
    \/ AddAttach(1)
    \/ AddAttachWait(1)
    \/ OpDone("A")
    \/ OpError("A")

SpecResult == InitResult /\ [][NextResult]_vars

\* the network address of cidr with its last octet increased by 1 (8 bits)
NetworkPlusOne(cidr) ==
    LET n == NetworkAddr(cidr) IN <<n[1], n[2], n[3], (n[4] + 1) % 256>>

\* C32: in the result of every ADD that returned ok the gateway is the
\* network address of the pool CIDR with its last octet increased by 1, and
\* the address is newIP with the prefix length of the subnet's primary CIDR.
C32_Gateway ==
    \A p \in Procs :
        (inv[p].verb = "ADD" /\ inv[p].pc = "returned" /\ inv[p].ret = "ok") =>
            /\ inv[p].result.gateway = NetworkPlusOne(pool.cidr)
            /\ inv[p].result.address = [ip |-> inv[p].newAddress, ones |-> cloud.primary.ones]

\* an ADD on a pool whose CIDR is written with a host address has returned a
\* gateway that is not the network address plus 1
C32_GatewayOffNetwork ==
    /\ inv[1].verb = "ADD" /\ inv[1].pc = "returned" /\ inv[1].ret = "ok"
    /\ pool.cidr = Cidr(10, 0, 0, 5, 29)
    /\ inv[1].newAddress = <<10, 0, 0, 1>>
    /\ inv[1].result.gateway = <<10, 0, 0, 6>>


(***************************************************************************)
(* One call of waitForInstanceOperation, its operation and its context     *)
(***************************************************************************)
InitWait ==
    /\ pool = NoPool
    /\ lastWriter = "init"
    /\ scanResult = NoScan
    /\ prov = IdleProv
    /\ cloud = NoCloud
    /\ call = [p \in Procs |-> IdleCall]
    /\ log = <<>>
    /\ InitDriver

NextWait ==
    \/ waitForInstanceOperation
    \/ \E failed \in BOOLEAN : opAdvance(failed)
    \/ ctxCancel
    \/ poll
    \/ pollError
    \/ selectAfter
    \/ selectDone

SpecWait == InitWait /\ [][NextWait]_vars

\* the step is the return of the wait
WaitReturns == wait.pc # "returned" /\ wait'.pc = "returned"

\* C33: the wait returns nil only from a poll that found the operation DONE
\* without error; it returns an error when the poll finds the operation DONE
\* with errors, and whenever it returns with the context cancelled; while the
\* operation is not DONE and the context is live it does not return, except
\* with the error of a poll that failed.
C33_WaitReturn ==
    [][WaitReturns =>
          /\ wait'.ret \in {"nil", "err"}
          /\ wait'.ret = "nil" =>
                /\ wait.pc = "poll" /\ wait'.polls = wait.polls + 1
                /\ wait.status = "DONE" /\ ~wait.error
          /\ (wait.status = "DONE" /\ wait.error) => wait'.ret = "err"
          /\ wait.ctx = "cancelled" => wait'.ret = "err"
          /\ (wait.status # "DONE" /\ wait.ctx = "live") =>
                (wait.pc = "poll" /\ wait'.ret = "err")]_vars

\* the wait has returned nil from its third poll: two polls found the
\* operation not DONE
C33_Witness ==
    /\ wait.pc = "returned" /\ wait.ret = "nil"
    /\ wait.polls = 3
    /\ wait.status = "DONE" /\ ~wait.error


(***************************************************************************)
(* Progress of one call, alone and under contention, on a /30 and a /32    *)
(***************************************************************************)
ProgressCIDRs == {Cidr(10, 111, 0, 0, 30), Cidr(10, 0, 0, 9, 32)}

SpecProgress == InitPool(ProgressCIDRs) /\ [][NextRetry]_vars

\* the steps of the call of process 1: its API calls return and its sleeps
\* end
Attempt1 == tryGet(1) \/ tryAllocate(1) \/ tryRelease(1)

\* weak fairness of the call's steps, WF_vars(Attempt1), written with the
\* enabling condition of Attempt1, which is Running(1)
SpecProgressFair == SpecProgress /\ ([]<>(~Running(1)) \/ []<><<Attempt1>>_vars)

\* every Allocate and Release call of process 1 returns
C34_Terminates == Running(1) ~> call[1].pc = "done"

\* rec has an address of its CIDR that is usable and not allocated
FreeAddress(rec) == UsableAddrs(rec.cidr) \ DOMAIN rec.allocations # {}

\* p's step is the Update of its first attempt, and the record is as p read it
FirstUpdateAlone(p) ==
    /\ call[p].pc = "update" /\ call[p].i = 0
    /\ call'[p] # call[p]
    /\ call[p].snap.exists /\ pool = call[p].snap

\* C34: an Allocate on an existing pool with at least one free address,
\* whose record no other writer touches during the call, returns ok from its
\* first attempt; a call whose 10th attempt loses the compare-and-swap as the
\* nine before it ends in failure there.
C34_Progress ==
    [][\A p \in Procs :
          /\ (FirstUpdateAlone(p) /\ call[p].op = "Allocate" /\ call[p].reqIP = NoIP
                /\ FreeAddress(pool)) =>
                /\ call'[p].pc = "done" /\ call'[p].res = "ok"
                /\ call'[p].ip \in DOMAIN pool'.allocations
          /\ (call[p].pc = "update" /\ call'[p] # call[p]
                /\ ~UpdateAccepted(call[p].snap) /\ call[p].i = MaxRetries - 1) =>
                /\ call'[p].pc = "done" /\ call'[p].res = "ConflictExhausted"]_vars

\* the same for pools whose prefix is below 31
C34_ProgressBelow31 ==
    [][\A p \in Procs :
          /\ (FirstUpdateAlone(p) /\ call[p].op = "Allocate" /\ call[p].reqIP = NoIP
                /\ FreeAddress(pool) /\ pool.cidr.ones < 31) =>
                /\ call'[p].pc = "done" /\ call'[p].res = "ok"
                /\ call'[p].ip \in DOMAIN pool'.allocations
          /\ (call[p].pc = "update" /\ call'[p] # call[p]
                /\ ~UpdateAccepted(call[p].snap) /\ call[p].i = MaxRetries - 1) =>
                /\ call'[p].pc = "done" /\ call'[p].res = "ConflictExhausted"]_vars

\* an Allocate alone on the empty /32 pool has failed on its first attempt
C34_NoProgress ==
    /\ pool.cidr.ones = 32 /\ DOMAIN pool.allocations = {} /\ pool.rv = 1
    /\ call[1].op = "Allocate" /\ call[1].pc = "done" /\ call[1].i = 0
    /\ call[1].res = "PoolExhausted"


\* the interface p's next update is built from, and the instance it is for
ReadFor(p) == IF inv[p].pc = "srcUpdate" THEN inv[p].src ELSE inv[p].instance

TargetOf(p) == IF inv[p].pc = "srcUpdate" THEN inv[p].origInst ELSE Self(p)

\* p is at one of its three interface updates
AtUpdate(p) == inv[p].pc \in {"srcUpdate", "attach", "delUpdate"}

\* the step starts an operation on n's interface
Submitted(n) == vm[n].op = NoOp /\ vm'[n].op # NoOp

\* C35: an interface update built from a read that is no longer current is
\* rejected: the interface stays as it is and the verb returns an error. So
\* every operation that is started was built from the current alias list and
\* differs from it by one entry, the address of the ADD that attaches it, or
\* the address of the DEL on this VM or of the migration ADD that detaches
\* it; nothing else changes an alias list, and while the operation runs the
\* list stays as it is. Hence an entry leaves a list only by a DEL for it on
\* that VM or by a source detach for it, and enters one only by the attach of
\* an ADD for it.
C35_StaleRejected ==
    [][/\ \A p \in Procs :
            (AtUpdate(p) /\ inv'[p] # inv[p] /\ TargetOf(p) \in Nodes
               /\ ReadFor(p) # Interface(vm[TargetOf(p)].aliases, vm[TargetOf(p)].fp)) =>
                  /\ vm' = vm
                  /\ inv'[p].pc = "returned" /\ inv'[p].ret = "err"
       /\ \A n \in Nodes :
            /\ Submitted(n) =>
                  LET p == vm'[n].op.by
                      new == vm'[n].op.aliases
                  IN  /\ p \in Procs /\ AtUpdate(p) /\ TargetOf(p) = n
                      /\ ReadFor(p) = Interface(vm[n].aliases, vm[n].fp)
                      /\ vm'[n].aliases = vm[n].aliases
                      /\ \/ inv[p].pc = "attach" /\ new = vm[n].aliases \cup {inv[p].newAddress}
                         \/ inv[p].pc = "delUpdate" /\ new = vm[n].aliases \ {inv[p].podIP}
                         \/ inv[p].pc = "srcUpdate" /\ new = vm[n].aliases \ {inv[p].reqIP}
            /\ vm'[n].aliases # vm[n].aliases =>
                  /\ vm[n].op # NoOp /\ vm'[n].op = NoOp
                  /\ vm'[n].aliases = vm[n].op.aliases
            /\ (vm[n].op # NoOp /\ vm'[n].op # NoOp) => vm'[n] = vm[n]]_vars

\* an ADD on node A is at its attach with a read of the interface that holds
\* X1, after a migration ADD on node B has detached X1 from node A: the update
\* it has built would bring X1 back, and it is rejected
C35_Witness ==
    \E p, q \in Procs :
        /\ Self(p) = "A" /\ Self(q) = "B"
        /\ inv[p].verb = "ADD" /\ inv[p].pc = "attach"
        /\ inv[p].newAddress # NoIP /\ inv[p].newAddress # X1
        /\ X1 \in inv[p].instance.aliases
        /\ X1 \notin vm["A"].aliases /\ vm["A"].op = NoOp
        /\ ~SubmitAccepted("A", inv[p].instance.fp)
        /\ inv[q].verb = "ADD" /\ inv[q].reqIP = X1 /\ inv[q].origInst = "A"
        /\ inv[q].pc \in {"attach", "attachWait"}


(***************************************************************************)
(* Standard ADD and DEL on two hosts sharing one pool: no migration        *)
(***************************************************************************)
NextStandard ==
    \/ \E p \in Procs :
        \/ AddStart(p)
        \/ \E P \in pods : DelStart(p, P)
        \/ \E P \in pods : DelNoNetns(p, P)
        \/ Lock(p)
        \/ Preamble(p)
        \/ AddAllocate(p)
        \/ tryGet(p)
        \/ tryAllocate(p)
        \/ tryRelease(p)
        \/ apiError(p)
        \/ AddAllocated(p)
        \/ AddAttach(p)
        \/ AddAttachWait(p)
        \/ DelUpdate(p)
        \/ DelWait(p)
        \/ DelRelease(p)
        \/ DelClientError(p)
        \/ DelReleased(p)
        \/ rpcError(p)
    \/ \E n \in Nodes : OpDone(n)
    \/ \E n \in Nodes : OpError(n)

SpecStandard == InitCNI /\ [][NextStandard]_vars

\* the aliases of every VM, and of the operation running on it, are keys of
\* the pool's allocations
AttachedAllocated ==
    \A n \in Nodes :
        /\ vm[n].aliases \subseteq DOMAIN pool.allocations
        /\ vm[n].op # NoOp => vm[n].op.aliases \subseteq DOMAIN pool.allocations

\* C36: with standard ADD and DEL invocations only, every alias attached to
\* a VM is a key of the pool's allocations; an ADD submits its attach only
\* with an address that its Allocate wrote into the pool, and a DEL calls
\* Release only after the operation that removes the alias has completed, when
\* the alias is no longer on the VM.
C36_AttachedInPool ==
    /\ []AttachedAllocated
    /\ [][\A p \in Procs :
            /\ (inv[p].pc = "attach" /\ SubmitsUpdate(p, Self(p))) =>
                  /\ inv[p].newAddress \in DOMAIN pool.allocations
                  /\ pool.allocations[inv[p].newAddress] = IPAllocation(p, Self(p))
            /\ (inv[p].pc = "allocating" /\ inv'[p].pc = "attach") =>
                  call[p].res = "ok" /\ call[p].ip = inv'[p].newAddress
            /\ (inv[p].pc # "release" /\ inv'[p].pc = "release") =>
                  /\ inv[p].pc = "delWait" /\ opRes[p] = "DONE"
                  /\ inv[p].podIP \notin vm[Self(p)].aliases
            /\ (call[p].op # "Release" /\ call'[p].op = "Release") =>
                  /\ inv[p].pc = "release"
                  /\ inv[p].podIP \notin vm[Self(p)].aliases]_vars

\* an ADD on node B has returned ok: its address is attached to B and
\* allocated; a DEL on node A has returned ok after Release: X1 is neither on
\* A nor in the pool
C36_Witness ==
    \E p, q \in Procs :
        /\ Self(p) = "B" /\ inv[p].verb = "ADD" /\ inv[p].pc = "returned" /\ inv[p].ret = "ok"
        /\ inv[p].newAddress \in vm["B"].aliases
        /\ inv[p].newAddress \in DOMAIN pool.allocations
        /\ Self(q) = "A" /\ inv[q].verb = "DEL" /\ inv[q].pc = "returned" /\ inv[q].ret = "ok"
        /\ inv[q].podIP = X1 /\ X1 \notin vm["A"].aliases /\ X1 \notin DOMAIN pool.allocations
        /\ lastWriter = "Release"


\* C37: with standard ADD and DEL invocations on different hosts sharing one
\* pool, no IP is in the alias lists of two VMs at the same time, nor in the
\* list of one VM and in the list an operation is about to give another.
C37_OneVMPerIP ==
    \A m, n \in Nodes :
        m # n =>
            /\ vm[m].aliases \cap vm[n].aliases = {}
            /\ vm[m].op # NoOp => vm[m].op.aliases \cap vm[n].aliases = {}

\* ADDs on both hosts have returned ok: each VM has its own address
C37_Witness ==
    \E p, q \in Procs :
        /\ Self(p) = "A" /\ Self(q) = "B"
        /\ inv[p].verb = "ADD" /\ inv[p].pc = "returned" /\ inv[p].ret = "ok"
        /\ inv[q].verb = "ADD" /\ inv[q].pc = "returned" /\ inv[q].ret = "ok"
        /\ inv[p].newAddress \in vm["A"].aliases
        /\ inv[q].newAddress \in vm["B"].aliases
        /\ inv[p].newAddress # inv[q].newAddress
        /\ pool.rv >= 3


LinearCIDRs == {Cidr(10, 111, 0, 0, 30)}

\* the addresses callers ask for and release by name: the usable addresses
LinearIPs(cidr) == {nextIP(NetworkAddr(cidr)), nextIP(nextIP(NetworkAddr(cidr)))}

\* concurrent Allocate (with and without requestedIP) and Release calls on a
\* pool of two usable addresses
NextLinear ==
    \E p \in {1, 3} :
        \/ Started < MaxCalls /\ Allocate(p, NoIP)
        \/ Started < MaxCalls /\ \E ip \in LinearIPs(pool.cidr) : Allocate(p, ip)
        \/ Started < MaxCalls /\ \E ip \in LinearIPs(pool.cidr) : Release(p, ip)
        \/ tryGet(p)
        \/ tryAllocate(p)
        \/ tryRelease(p)

SpecLinear == InitPool(LinearCIDRs) /\ [][NextLinear]_vars

\* one successful call of the log applied alone to rec: the record it leaves,
\* and whether it succeeds alone with the result the log has
ApplyAlone(rec, e) ==
    IF e.op = "Allocate"
    THEN LET t == tryAllocateLocal(rec, e.reqIP, e.p, NodeOf(e.p))
         IN  [rec |-> t.rec, same |-> t.err = "none" /\ t.ip = e.ip]
    ELSE [rec |-> tryReleaseLocal(rec, e.reqIP), same |-> TRUE]

\* the successful calls of l applied one at a time, in the order of l, from rec
RECURSIVE OneAtATime(_, _)
OneAtATime(rec, l) ==
    IF l = <<>> THEN [rec |-> rec, same |-> TRUE]
    ELSE IF Head(l).res # "ok" THEN OneAtATime(rec, Tail(l))
    ELSE LET a == ApplyAlone(rec, Head(l))
             r == OneAtATime(a.rec, Tail(l))
         IN  [rec |-> r.rec, same |-> a.same /\ r.same]

\* C38: under any interleaving of Allocate and Release calls on one pool, the
\* allocations map equals the result of applying the successful calls one at a
\* time, in the order their writes were accepted, to the empty pool (a
\* successful call returns in the step its write is accepted, so the log has
\* that order), and every successful Allocate returned the address it gets in
\* that sequence: no entry is lost and no released key reappears.
C38_Linearizable ==
    LET r == OneAtATime(NewPool(pool.cidr), log)
    IN  /\ SameAllocations(pool.allocations, r.rec.allocations)
        /\ pool.status = r.rec.status
        /\ r.same

\* all three calls have finished with accepted writes: an Allocate, a Release
\* of the address it wrote, and an Allocate that lost an attempt to a Conflict
C38_Witness ==
    /\ \A p \in Procs : ~Running(p)
    /\ Len(log) = MaxCalls
    /\ \A n \in DOMAIN log : log[n].res = "ok"
    /\ \E m, n \in DOMAIN log :
          /\ m < n
          /\ log[m].op = "Allocate" /\ log[n].op = "Release"
          /\ log[n].reqIP = log[m].ip
    /\ \E n \in DOMAIN log : log[n].op = "Allocate" /\ log[n].attempts > 1


(***************************************************************************)
(* The provisioner and allocator clients on one existing record            *)
(***************************************************************************)
MaxUpdateRuns == 1

MaxUpdateCalls == 2

\* the record exists and holds the allocation of X1
InitInterleave ==
    /\ pool = PoolWith({X1})
    /\ lastWriter = "init"
    /\ scanResult = NoScan
    /\ prov = IdleProv
    /\ cloud = NoCloud
    /\ call = [p \in Procs |-> IdleCall]
    /\ log = <<>>
    /\ InitDriver

\* provisioner runs on the record, while callers on two nodes allocate and
\* release X1
NextInterleave ==
    \/ prov.runs < MaxUpdateRuns /\ createOrUpdateIPPool(Cidr(10, 111, 0, 0, 29), "live")
    \/ provGet
    \/ provUpdate
    \/ \E p \in {1, 3} :
        \/ Started < MaxUpdateCalls /\ Allocate(p, NoIP)
        \/ Started < MaxUpdateCalls /\ Release(p, X1)
        \/ tryGet(p)
        \/ tryAllocate(p)
        \/ tryRelease(p)

SpecInterleave == InitInterleave /\ [][NextInterleave]_vars

\* the step is the provisioner's Update request
ProvUpdateStep == prov.pc = "update" /\ prov' # prov

\* C39: a provisioner update of an existing record that interleaves with
\* Allocate and Release calls leaves the allocations map as it is at the
\* moment of the write, so no accepted allocation is removed and no released
\* one restored; an update built from a read that is no longer current is
\* rejected, the record stays as it is, and the run ends with an error
\* without another Get or Update.
C39_ProvisionerInterleaved ==
    [][ProvUpdateStep =>
          /\ SameAllocations(pool'.allocations, pool.allocations)
          /\ prov.existing.rv # pool.rv =>
                /\ pool' = pool
                /\ prov'.pc = "idle" /\ prov'.ret = "err"
                /\ prov'.runs = prov.runs
          /\ prov.existing.rv = pool.rv =>
                /\ pool'.rv = pool.rv + 1
                /\ prov'.pc = "idle" /\ prov'.ret = "ok"]_vars

\* the run's Update was rejected: after its Get an Allocate or a Release
\* wrote the record, whose allocations are no longer the ones the run read
C39_Witness ==
    /\ prov.pc = "idle" /\ prov.ret = "err"
    /\ prov.existing.exists
    /\ prov.existing.rv < pool.rv
    /\ lastWriter \in {"Allocate", "Release"}
    /\ ~SameAllocations(prov.existing.allocations, pool.allocations)


(***************************************************************************)
(* The installer on a host's CNI conf file                                 *)
(***************************************************************************)
MaxPlugins == 2

IpamTypes == {"gcp-ipam", "host-local"}

\* the plugins of the conf lists: with an ipam section of either type, with
\* an ipam object that has no type, and without an ipam section
ConfPlugins ==
    {Plugin("ptp", Ipam("host-local", "ranges")), Plugin("ptp", Ipam("gcp-ipam", "ranges")),
     Plugin("bridge", Ipam("", "")), Plugin("portmap", NoIpam)}

\* no conf file, files that are no JSON, and conf lists of up to MaxPlugins
\* plugins
ConfFiles ==
    {NoFile, NilBytes, InvalidBytes} \cup
    {Bytes("json", pl, extra, indented) :
        pl \in UNION {[1..n -> ConfPlugins] : n \in 0..MaxPlugins},
        extra \in BOOLEAN, indented \in BOOLEAN}

InitInstaller ==
    /\ pool = NoPool
    /\ lastWriter = "init"
    /\ scanResult = NoScan
    /\ prov = IdleProv
    /\ cloud = NoCloud
    /\ call = [p \in Procs |-> IdleCall]
    /\ log = <<>>
    /\ inv = [p \in Procs |-> IdleInv]
    /\ lock = [n \in Nodes |-> 0]
    /\ vm = [n \in Nodes |-> [aliases |-> {}, fp |-> 1, op |-> NoOp]]
    /\ opRes = [p \in Procs |-> "none"]
    /\ pods = {}
    /\ migrating = {}
    /\ ninv = 0
    /\ wait = IdleWait
    /\ \E f \in ConfFiles : installer = [IdleInstaller EXCEPT !.file = f]

NextInstaller ==
    \/ \E t \in IpamTypes : reconfigureCNIIPAMConf(t)
    \/ confStat
    \/ confRead
    \/ confUpdate
    \/ confWrite
    \/ confRename
    \/ \E created \in BOOLEAN : confError(created)

SpecInstaller == InitInstaller /\ [][NextInstaller]_vars

\* no plugin of the configuration has an ipam section
NoIpamPlugin(b) ==
    b.kind = "json" /\ \A i \in DOMAIN b.plugins : ~b.plugins[i].ipam.has

\* the two contents are the same JSON value, whatever their layout
SameJSON(a, b) ==
    a.kind = "json" /\ b.kind = "json" /\ a.plugins = b.plugins /\ a.extra = b.extra

\* C40: a reconfiguration changes only the ipam type of the plugins that
\* have an ipam section: a step that changes the conf file leaves the same
\* JSON value with those types set to the requested one; when no plugin has
\* an ipam section the content of the file stays as it is.
C40_OnlyIpamType ==
    [][/\ installer'.file # installer.file =>
             SameJSON(installer'.file,
                      [installer.file EXCEPT
                          !.plugins = SetIpamType(@, installer.ipamType)])
       /\ NoIpamPlugin(installer.file) => installer'.file = installer.file]_vars

\* a reconfiguration of a configuration without ipam section has returned nil
\* and left an empty conf file
C40_Emptied ==
    /\ installer.pc = "idle" /\ installer.ret = "nil"
    /\ NoIpamPlugin(installer.data)
    /\ installer.file = NilBytes

\* a reconfiguration of a configuration that has an ipam section and no
\* top-level key outside CNIConfig changes only the ipam types
C40_IpamTypeSet ==
    [][(installer'.file # installer.file /\ ~installer.file.extra
            /\ ~NoIpamPlugin(installer.file)) =>
             SameJSON(installer'.file,
                      [installer.file EXCEPT
                          !.plugins = SetIpamType(@, installer.ipamType)])]_vars

====
